---- MODULE Spec2Model ----
(***************************************************************************)
(* A model of the core of react-inline-calc (src/src/detectMath.ts): the   *)
(* tokenizer, the evaluator, the regex scanner and the two selectors.      *)
(*                                                                         *)
(* Strings are sequences of one-character strings (1-based, so the code's  *)
(* index i is the model's position i+1).  A JavaScript number is an        *)
(* extended rational: a record with numerator n and denominator d in       *)
(* lowest terms with d > 0, or d = 0 for NaN.  Magnitudes stay far below   *)
(* the range of a double, so overflow to Infinity lies outside the bounds  *)
(* of this model, and signed zero is not distinguished from zero.          *)
(***************************************************************************)
EXTENDS Integers, Sequences, FiniteSets, TLC

\* ------------------------------------------------------------------------
\* Values: numbers, string tokens and null share one record shape so that
\* any two of them can be compared.
\* ------------------------------------------------------------------------
Null == [k |-> "null", n |-> 0, d |-> 1, s |-> ""]
NaN == [k |-> "num", n |-> 0, d |-> 0, s |-> ""]
Str(s) == [k |-> "str", n |-> 0, d |-> 1, s |-> s]
\* The completion of a call that throws instead of returning a value: the
\* TypeError of calling undefined or of reading a property of null.  Every
\* caller passes it on, as an uncaught exception unwinds the stack.
Thrown == [k |-> "throw", n |-> 0, d |-> 1, s |-> "TypeError"]

Abs(x) == IF x < 0 THEN -x ELSE x

RECURSIVE Gcd(_, _)
Gcd(a, b) == IF b = 0 THEN a ELSE Gcd(b, a % b)

\* The number n/d in lowest terms; NaN when d = 0.
Num(n, d) ==
  IF d = 0 THEN NaN
  ELSE LET g == Gcd(Abs(n), Abs(d))
           sg == IF d < 0 THEN -1 ELSE 1
       IN [k |-> "num", n |-> sg * (n \div g), d |-> sg * (d \div g), s |-> ""]

IsNumber(v) == v.k = "num"
IsString(v) == v.k = "str"
IsNaN(v) == v.k = "num" /\ v.d = 0
IsFinite(v) == v.k = "num" /\ v.d # 0
IsZero(v) == v.k = "num" /\ v.d # 0 /\ v.n = 0
IsStr(v, s) == v.k = "str" /\ v.s = s

\* JavaScript arithmetic on numbers; NaN is absorbing.
Add(a, b) == IF IsNaN(a) \/ IsNaN(b) THEN NaN ELSE Num(a.n * b.d + b.n * a.d, a.d * b.d)
Sub(a, b) == IF IsNaN(a) \/ IsNaN(b) THEN NaN ELSE Num(a.n * b.d - b.n * a.d, a.d * b.d)
Mul(a, b) == IF IsNaN(a) \/ IsNaN(b) THEN NaN ELSE Num(a.n * b.n, a.d * b.d)
Div(a, b) == IF IsNaN(a) \/ IsNaN(b) THEN NaN ELSE Num(a.n * b.d, a.d * b.n)
Neg(a) == IF IsNaN(a) THEN NaN ELSE Num(-a.n, a.d)

\* ------------------------------------------------------------------------
\* Characters
\* ------------------------------------------------------------------------
\* U+00D7, the multiplication sign, one UTF-16 unit in the source.
MulSign == "u00D7"

Digits == {"0", "1", "2", "3", "4", "5", "6", "7", "8", "9"}
IsDigit(c) == c \in Digits
DigitVal(c) ==
  CASE c = "0" -> 0 [] c = "1" -> 1 [] c = "2" -> 2 [] c = "3" -> 3 [] c = "4" -> 4
    [] c = "5" -> 5 [] c = "6" -> 6 [] c = "7" -> 7 [] c = "8" -> 8 [] c = "9" -> 9

\* OPERATORS without its entries: the glyph is pushed as it is.
OPERATORSUnmapped(c) == c

\* OPERATORS: the glyphs normalised to "*".
OPERATORS(c) == IF c \in {"x", MulSign} THEN "*" ELSE ""
InOPERATORS(c) == c \in {"x", MulSign}
\* The keys of OPS.
InOPS(c) == c \in {"*", "/", "+", "-"}
\* OPS whose "/" divides whatever its right operand is.
OPSUnguarded(op, a, b) ==
  CASE op = "*" -> Mul(a, b)
    [] op = "/" -> Div(a, b)
    [] op = "+" -> Add(a, b)
    [] op = "-" -> Sub(a, b)
    [] OTHER -> Thrown

\* OPS[op]!(a, b): the binary operations; "/" gives null on b === 0.  OPS[op]
\* is undefined for any other key, and calling it throws.
OPS(op, a, b) ==
  CASE op = "*" -> Mul(a, b)
    [] op = "/" -> IF IsZero(b) THEN Null ELSE Div(a, b)
    [] op = "+" -> Add(a, b)
    [] op = "-" -> Sub(a, b)
    [] OTHER -> Thrown

\* ------------------------------------------------------------------------
\* parseFloat on the literals tokenize builds: an optional "-", then digits
\* with at most one ".".  The value is NaN unless a digit follows the sign
\* directly or follows the "." that follows the sign directly.
\* ------------------------------------------------------------------------
RECURSIVE DigitsValue(_, _)
DigitsValue(ds, acc) ==
  IF ds = <<>> THEN acc ELSE DigitsValue(Tail(ds), acc * 10 + DigitVal(Head(ds)))

RECURSIVE Pow10(_)
Pow10(k) == IF k = 0 THEN 1 ELSE 10 * Pow10(k - 1)

parseFloat(num) ==
  LET neg == num # <<>> /\ Head(num) = "-"
      body == IF neg THEN Tail(num) ELSE num
      dots == {i \in 1..Len(body) : body[i] = "."}
      dot == IF dots = {} THEN Len(body) + 1 ELSE CHOOSE i \in dots : \A j \in dots : i <= j
      ip == SubSeq(body, 1, dot - 1)
      fp == SubSeq(body, dot + 1, Len(body))
      mag == Num(DigitsValue(ip, 0) * Pow10(Len(fp)) + DigitsValue(fp, 0), Pow10(Len(fp)))
  IN IF ip = <<>> /\ fp = <<>> THEN NaN
     ELSE IF neg THEN Neg(mag) ELSE mag

\* ------------------------------------------------------------------------
\* tokenize
\* ------------------------------------------------------------------------
\* NumLoop in which a second "." ends the literal instead of failing.
RECURSIVE NumLoopSecondDotEnds(_, _, _, _)
NumLoopSecondDotEnds(expr, i, num, hasDecimal) ==
  IF i <= Len(expr) /\ (IsDigit(expr[i]) \/ expr[i] = "." \/ expr[i] = ",")
  THEN IF expr[i] = "," THEN NumLoopSecondDotEnds(expr, i + 1, num, hasDecimal)
       ELSE IF expr[i] = "." /\ hasDecimal THEN [fail |-> FALSE, i |-> i, num |-> num]
       ELSE NumLoopSecondDotEnds(expr, i + 1, Append(num, expr[i]), hasDecimal \/ expr[i] = ".")
  ELSE [fail |-> FALSE, i |-> i, num |-> num]

\* NumLoop in which a "," ends the literal.
RECURSIVE NumLoopCommaEnds(_, _, _, _)
NumLoopCommaEnds(expr, i, num, hasDecimal) ==
  IF i <= Len(expr) /\ (IsDigit(expr[i]) \/ expr[i] = ".")
  THEN IF expr[i] = "." /\ hasDecimal THEN [fail |-> TRUE, i |-> i, num |-> num]
       ELSE NumLoopCommaEnds(expr, i + 1, Append(num, expr[i]), hasDecimal \/ expr[i] = ".")
  ELSE [fail |-> FALSE, i |-> i, num |-> num]

\* The inner while loop of tokenize: accumulates the literal from position
\* i; fail is the early "return []" on a second ".".
RECURSIVE NumLoop(_, _, _, _)
NumLoop(expr, i, num, hasDecimal) ==
  IF i <= Len(expr) /\ (IsDigit(expr[i]) \/ expr[i] = "." \/ expr[i] = ",")
  THEN IF expr[i] = "," THEN NumLoop(expr, i + 1, num, hasDecimal)
       ELSE IF expr[i] = "." /\ hasDecimal THEN [fail |-> TRUE, i |-> i, num |-> num]
       ELSE NumLoop(expr, i + 1, Append(num, expr[i]), hasDecimal \/ expr[i] = ".")
  ELSE [fail |-> FALSE, i |-> i, num |-> num]

\* isNegative without the test of the character after the "-".
isNegativeBeforeParen(expr, i, tokens) ==
  /\ expr[i] = "-"
  /\ \/ tokens = <<>>
     \/ IsString(tokens[Len(tokens)]) /\ ~IsStr(tokens[Len(tokens)], ")")
  /\ i + 1 <= Len(expr)

\* isNegative at position i with the tokens emitted so far.
isNegative(expr, i, tokens) ==
  /\ expr[i] = "-"
  /\ \/ tokens = <<>>
     \/ IsString(tokens[Len(tokens)]) /\ ~IsStr(tokens[Len(tokens)], ")")
  /\ i + 1 <= Len(expr)
  /\ expr[i + 1] # "("

RECURSIVE TokLoop(_, _, _)
TokLoop(expr, i, tokens) ==
  IF i > Len(expr) THEN tokens
  ELSE LET ch == expr[i] IN
    IF ch = " " \/ ch = "\t" THEN TokLoop(expr, i + 1, tokens)
    ELSE IF ch = "(" \/ ch = ")" THEN TokLoop(expr, i + 1, Append(tokens, Str(ch)))
    ELSE IF IsDigit(ch) \/ ch = "." \/ isNegative(expr, i, tokens)
    THEN LET neg == isNegative(expr, i, tokens)
             r == NumLoop(expr, IF neg THEN i + 1 ELSE i, IF neg THEN <<"-">> ELSE <<>>, FALSE)
         IN IF r.fail THEN <<>>
            ELSE TokLoop(expr, r.i, Append(tokens, parseFloat(r.num)))
    ELSE IF InOPS(ch) \/ InOPERATORS(ch)
    THEN TokLoop(expr, i + 1, Append(tokens, Str(IF InOPERATORS(ch) THEN OPERATORS(ch) ELSE ch)))
    ELSE TokLoop(expr, i + 1, tokens)

tokenize(expr) == TokLoop(expr, 1, <<>>)

\* ------------------------------------------------------------------------
\* collapseOps and evaluateTokens
\* ------------------------------------------------------------------------
\* work.splice(i - 1, 3, result) at the model's position p = i + 1.
Splice3(work, p, result) ==
  SubSeq(work, 1, p - 2) \o <<result>> \o SubSeq(work, p + 2, Len(work))

\* work[i] of a JavaScript array: undefined (here null) out of range.
At(work, p) == IF p >= 1 /\ p <= Len(work) THEN work[p] ELSE Null

\* OpsIncludes without the membership test.
OpsIncludesAnyString(ops, token) == IsString(token)

\* typeof token === "string" && ops.includes(token)
OpsIncludes(ops, token) == IsString(token) /\ token.s \in ops

\* The while loop of collapseOps from position p; ok = FALSE is "return
\* null", and threw = TRUE an exception leaving the loop.
RECURSIVE CollapseLoop(_, _, _)
CollapseLoop(work, ops, p) ==
  IF p > Len(work) THEN [ok |-> TRUE, threw |-> FALSE, work |-> work]
  ELSE LET token == work[p] IN
    IF OpsIncludes(ops, token)
    THEN LET left == At(work, p - 1)
             right == At(work, p + 1)
         IN IF ~IsNumber(left) \/ ~IsNumber(right)
            THEN [ok |-> FALSE, threw |-> FALSE, work |-> work]
            ELSE LET result == OPS(token.s, left, right)
                 IN IF result = Thrown THEN [ok |-> FALSE, threw |-> TRUE, work |-> work]
                    ELSE IF result = Null THEN [ok |-> FALSE, threw |-> FALSE, work |-> work]
                    ELSE CollapseLoop(Splice3(work, p, result), ops, p)
    ELSE CollapseLoop(work, ops, p + 1)

collapseOps(work, ops) == CollapseLoop(work, ops, 1)

Includes(work, s) == \E i \in 1..Len(work) : IsStr(work[i], s)

Min(S) == CHOOSE x \in S : \A y \in S : x <= y
Max(S) == CHOOSE x \in S : \A y \in S : x >= y

\* The for loop that finds the innermost pair: close is the first ")" and
\* open the last "(" before it; 0 stands for the code's -1.
FindClose(work) ==
  LET c == {i \in 1..Len(work) : IsStr(work[i], ")")}
  IN IF c = {} THEN 0 ELSE Min(c)
FindOpen(work) ==
  LET close == FindClose(work)
      o == {i \in 1..Len(work) : IsStr(work[i], "(") /\ (close = 0 \/ i < close)}
  IN IF o = {} THEN 0 ELSE Max(o)

\* ApplyOperators with the two passes in the other order.
ApplyOperatorsAddFirst(work) ==
  LET as == collapseOps(work, {"+", "-"}) IN
  IF as.threw THEN Thrown
  ELSE IF ~as.ok THEN Null
  ELSE LET md == collapseOps(as.work, {"*", "/"}) IN
    IF md.threw THEN Thrown
    ELSE IF ~md.ok THEN Null
    ELSE IF IsNumber(At(md.work, 1)) THEN md.work[1] ELSE Null

\* ApplyOperators without the tests of what collapseOps returns.
ApplyOperatorsUnchecked(work) ==
  LET md == collapseOps(work, {"*", "/"}) IN
  LET as == collapseOps(md.work, {"+", "-"}) IN
  IF md.threw \/ as.threw THEN Thrown
  ELSE IF IsNumber(At(as.work, 1)) THEN as.work[1] ELSE Null

\* The last statements of evaluateTokens, on the parenthesis-free work.
ApplyOperators(work) ==
  LET md == collapseOps(work, {"*", "/"}) IN
  IF md.threw THEN Thrown
  ELSE IF ~md.ok THEN Null
  ELSE LET as == collapseOps(md.work, {"+", "-"}) IN
    IF as.threw THEN Thrown
    ELSE IF ~as.ok THEN Null
    ELSE IF IsNumber(At(as.work, 1)) THEN as.work[1] ELSE Null

RECURSIVE evaluateTokens(_), ResolveParens(_)
\* The "resolve parentheses" while loop followed by the rest of the body.
ResolveParens(work) ==
  IF Includes(work, "(")
  THEN LET open == FindOpen(work)
           close == FindClose(work)
       IN IF open = 0 \/ close = 0 \/ close <= open THEN Null
          ELSE LET inner == evaluateTokens(SubSeq(work, open + 1, close - 1))
               IN IF inner = Thrown THEN Thrown
                  ELSE IF inner = Null THEN Null
                  ELSE ResolveParens(SubSeq(work, 1, open - 1) \o <<inner>>
                                     \o SubSeq(work, close + 1, Len(work)))
  ELSE IF Includes(work, ")") THEN Null
  ELSE ApplyOperators(work)

evaluateTokens(tokens) ==
  IF Len(tokens) = 0 THEN Null
  ELSE IF Len(tokens) = 1 THEN (IF IsNumber(tokens[1]) THEN tokens[1] ELSE Null)
  ELSE IF IsStr(tokens[1], "+") THEN ResolveParens(Tail(tokens))
  ELSE IF IsStr(tokens[1], "-") /\ Len(tokens) > 1
          /\ (IsStr(tokens[2], "(") \/ IsNumber(tokens[2]))
  THEN LET rest == evaluateTokens(Tail(tokens))
       IN IF rest = Thrown THEN Thrown
          ELSE IF rest # Null THEN Neg(rest) ELSE Null
  ELSE ResolveParens(tokens)

\* ------------------------------------------------------------------------
\* MATH_REGEX.  A backtracking matcher is modelled by the sequence of end
\* positions a sub-pattern can reach from a start position, in the order
\* in which backtracking tries them (greedy: longest first; alternatives:
\* left to right); a concatenation maps the next sub-pattern over that
\* sequence, and the match the engine reports is the head of the sequence
\* of the whole pattern.  Positions are 1-based: the end position is that
\* of the first character after the match.
\* ------------------------------------------------------------------------
RECURSIVE Flatten(_)
Flatten(ss) == IF ss = <<>> THEN <<>> ELSE Head(ss) \o Flatten(Tail(ss))

\* Later repetitions of an end position add nothing that an earlier one
\* has not already tried.
Dedupe(xs) == SelectSeq([k \in 1..Len(xs) |-> IF \E j \in 1..(k - 1) : xs[j] = xs[k] THEN 0 ELSE xs[k]],
                        LAMBDA e : e # 0)

\* hi, hi - 1, ..., lo
Desc(hi, lo) == [k \in 1..(hi - lo + 1) |-> hi - k + 1]

IsRegexOp(c) == c \in {"+", "-", "*", "/", "x", MulSign}
\* \s: the white space characters of the alphabet
IsSpace(c) == c \in {" ", "\t", "\n"}
CharIs(s, p, c) == p <= Len(s) /\ s[p] = c
DigitAt(s, p) == p <= Len(s) /\ IsDigit(s[p])

\* The end of the longest run from p of: \s, [^)], [\d,], \d
RECURSIVE SpaceRun(_, _), NotCloseRun(_, _), DigitCommaRun(_, _), DigitRun(_, _)
SpaceRun(s, p) == IF p <= Len(s) /\ IsSpace(s[p]) THEN SpaceRun(s, p + 1) ELSE p
NotCloseRun(s, p) == IF p <= Len(s) /\ s[p] # ")" THEN NotCloseRun(s, p + 1) ELSE p
DigitCommaRun(s, p) ==
  IF p <= Len(s) /\ (IsDigit(s[p]) \/ s[p] = ",") THEN DigitCommaRun(s, p + 1) ELSE p
DigitRun(s, p) == IF p <= Len(s) /\ IsDigit(s[p]) THEN DigitRun(s, p + 1) ELSE p

\* c? for a single character c
OptChar(s, p, c) == IF CharIs(s, p, c) THEN <<p + 1, p>> ELSE <<p>>

\* The pattern c? after each of the end positions xs.
ThenOptChar(s, xs, c) == Flatten([k \in 1..Len(xs) |-> OptChar(s, xs[k], c)])

\* The ends of [+\-*/x×]\s* from a, where the operator must stand.
OpThenSpace(s, a) ==
  IF a <= Len(s) /\ IsRegexOp(s[a]) THEN Desc(SpaceRun(s, a + 1), a + 1) ELSE <<>>

\* \s*[+\-*/x×]\s*
OpWithSpace(s, p) == Flatten([k \in 1..Len(Desc(SpaceRun(s, p), p)) |-> OpThenSpace(s, SpaceRun(s, p) - k + 1)])

\* \([^)]+\) with q the end of the run of [^)] after the "("
GroupTo(s, p, q) ==
  IF CharIs(s, p, "(") /\ q > p + 1 /\ CharIs(s, q, ")") THEN <<q + 1>> ELSE <<>>
Group(s, p) == GroupTo(s, p, NotCloseRun(s, p + 1))
ThenGroup(s, xs) == Flatten([k \in 1..Len(xs) |-> Group(s, xs[k])])

\* [^)]* after each of the end positions xs
ThenNotClose(s, xs) == Flatten([k \in 1..Len(xs) |-> Desc(NotCloseRun(s, xs[k]), xs[k])])

\* \(?[^)]*\)?
LooseGroup(s, p) == Dedupe(ThenOptChar(s, ThenNotClose(s, OptChar(s, p, "(")), ")"))
ThenLooseGroup(s, xs) == Flatten([k \in 1..Len(xs) |-> LooseGroup(s, xs[k])])

\* (?:\.\d+)? from q
OptFraction(s, q) ==
  IF CharIs(s, q, ".") /\ DigitAt(s, q + 1)
  THEN Desc(DigitRun(s, q + 1), q + 2) \o <<q>>
  ELSE <<q>>
ThenOptFraction(s, xs) == Flatten([k \in 1..Len(xs) |-> OptFraction(s, xs[k])])

\* \d[\d,]*(?:\.\d+)?
Numeral(s, p) ==
  IF ~DigitAt(s, p) THEN <<>>
  ELSE ThenOptFraction(s, Desc(DigitCommaRun(s, p + 1), p + 1))
ThenNumeral(s, xs) == Flatten([k \in 1..Len(xs) |-> Numeral(s, xs[k])])

\* -?\d[\d,]*(?:\.\d+)?
SignedNumeral(s, p) == ThenNumeral(s, OptChar(s, p, "-"))

\* \s*[+\-*/x×]\s*\(?[^)]*\)? : the repeated part of the first two
\* alternatives
Tail12(s, p) == Dedupe(ThenLooseGroup(s, OpWithSpace(s, p)))

\* \s*[+\-*/x×]\s*\(?-?\d[\d,]*(?:\.\d+)?\)?|\s*[+\-*/x×]\s*\([^)]+\) : the
\* repeated part of the third alternative, ops being the ends of
\* \s*[+\-*/x×]\s*
Tail3After(s, ops) ==
  Dedupe(ThenOptChar(s, ThenNumeral(s, ThenOptChar(s, ThenOptChar(s, ops, "("), "-")), ")")
         \o ThenGroup(s, ops))
Tail3(s, p) == Tail3After(s, OpWithSpace(s, p))

\* (?:...)* over Tail12 or Tail3 (third = TRUE), greedy; every iteration
\* consumes at least the operator.
RECURSIVE Star(_, _, _), ThenStar(_, _, _)
Star(s, p, third) ==
  Dedupe(ThenStar(s, IF third THEN Tail3(s, p) ELSE Tail12(s, p), third) \o <<p>>)
ThenStar(s, xs, third) == Flatten([k \in 1..Len(xs) |-> Star(s, xs[k], third)])

\* (?:...)+
Plus(s, p, third) == Dedupe(ThenStar(s, IF third THEN Tail3(s, p) ELSE Tail12(s, p), third))
ThenPlus(s, xs, third) == Flatten([k \in 1..Len(xs) |-> Plus(s, xs[k], third)])

\* [+\-*/x×]\s*\([^)]+\)(?:\s*[+\-*/x×]\s*\(?[^)]*\)?)*
Alt1(s, p) == ThenStar(s, ThenGroup(s, OpThenSpace(s, p)), FALSE)

\* \([^)]+\)(?:\s*[+\-*/x×]\s*\(?[^)]*\)?)+
Alt2(s, p) == ThenPlus(s, Group(s, p), FALSE)

\* -?\d[\d,]*(?:\.\d+)?(?:...|...)+
Alt3(s, p) == ThenPlus(s, SignedNumeral(s, p), TRUE)

\* The end of the match of MATH_REGEX that starts at p, 0 when none does:
\* the first end of the first alternative that matches.
FirstEnd(ends) == IF ends = <<>> THEN 0 ELSE Head(ends)
MatchAt(s, p) == FirstEnd(Alt1(s, p) \o Alt2(s, p) \o Alt3(s, p))

\* The end of the match from every start position of the text.
MatchEnds(text) == [p \in 1..Len(text) |-> MatchAt(text, p)]

\* regex.exec(text) with the g flag from lastIndex (a position here), ends
\* being MatchEnds(text): the leftmost start at or after lastIndex that
\* matches; 0 is null.
RegexExec(ends, lastIndex) ==
  IF \E p \in lastIndex..Len(ends) : ends[p] # 0
  THEN Min({p \in lastIndex..Len(ends) : ends[p] # 0})
  ELSE 0

\* ------------------------------------------------------------------------
\* findAllExpressions, detectMathExpression, detectMathExpressionAtCursor
\* ------------------------------------------------------------------------
\* Number.isInteger
IsInteger(v) == IsFinite(v) /\ v.d = 1

\* The first k decimal digits of r/d (0 <= r < d) as an integer, by long
\* division, rounded on the remainder (a tie rounds up).
RECURSIVE FractionDigits(_, _, _, _)
FractionDigits(r, d, k, acc) ==
  IF k = 0 THEN acc + (IF 2 * r >= d THEN 1 ELSE 0)
  ELSE FractionDigits((r * 10) % d, d, k - 1, acc * 10 + ((r * 10) \div d))

\* ToFixed6 that drops the digits after the sixth instead of rounding.
RECURSIVE FractionDigitsTruncated(_, _, _, _)
FractionDigitsTruncated(r, d, k, acc) ==
  IF k = 0 THEN acc
  ELSE FractionDigitsTruncated((r * 10) % d, d, k - 1, acc * 10 + ((r * 10) \div d))
ToFixed6Truncated(v) ==
  IF IsNaN(v) THEN NaN
  ELSE IF v.n < 0
  THEN Neg(Num(((-v.n) \div v.d) * 1000000 + FractionDigitsTruncated((-v.n) % v.d, v.d, 6, 0), 1000000))
  ELSE Num((v.n \div v.d) * 1000000 + FractionDigitsTruncated(v.n % v.d, v.d, 6, 0), 1000000)

\* parseFloat(result.toFixed(6)): the nearest multiple of 10^-6 of the
\* magnitude, with the sign put back; NaN stays NaN.
ToFixed6(v) ==
  IF IsNaN(v) THEN NaN
  ELSE IF v.n < 0
  THEN Neg(Num(((-v.n) \div v.d) * 1000000 + FractionDigits((-v.n) % v.d, v.d, 6, 0), 1000000))
  ELSE Num((v.n \div v.d) * 1000000 + FractionDigits(v.n % v.d, v.d, 6, 0), 1000000)

\* Number.isInteger(result) ? result : parseFloat(result.toFixed(6)); on a
\* result that is not a number, Number.isInteger is false and null.toFixed
\* throws.
formattedResult(result) ==
  IF ~IsNumber(result) THEN Thrown
  ELSE IF IsInteger(result) THEN result ELSE ToFixed6(result)

\* /[\d.]/.test(c)
IsDigitOrDot(c) == IsDigit(c) \/ c = "."

\* MakeMatch with endIndex taken from the position after the match without
\* the shift to the code's 0-based offsets.
MakeMatchEndShifted(text, index, end, result) ==
  [expression |-> SubSeq(text, index, end - 1),
   result |-> formattedResult(result),
   startIndex |-> index - 1,
   endIndex |-> end]

\* The object pushed for a match at position index (1-based) ending before
\* position end; startIndex and endIndex are the code's 0-based offsets.
MakeMatch(text, index, end, result) ==
  [expression |-> SubSeq(text, index, end - 1),
   result |-> formattedResult(result),
   startIndex |-> index - 1,
   endIndex |-> (index - 1) + Len(SubSeq(text, index, end - 1))]

\* The first filter with only a digit looked for before the match.
PrecededByDigit(text, index) == index - 1 > 0 /\ IsDigit(text[index - 1])

\* The two "continue" filters on a raw match.
PrecededByNumeral(text, index) == index - 1 > 0 /\ IsDigitOrDot(text[index - 1])
FollowedByDot(text, end) == end - 1 < Len(text) /\ text[end] = "."

\* One raw match of the loop body: the three "continue" statements; value
\* is evaluateTokens(tokenize(fullMatch)).
Rejected(text, index, end, value) ==
  \/ PrecededByNumeral(text, index)
  \/ FollowedByDot(text, end)
  \/ value = Null

\* The completion of a call of findAllExpressions or of a selector that
\* throws.
ThrownMatch == [expression |-> <<>>, result |-> Thrown, startIndex |-> -1, endIndex |-> -1]

\* results.push(m), unless computing m threw.
Push(results, m) == Append(results, IF m.result = Thrown THEN ThrownMatch ELSE m)

\* The body of the while loop for the raw match from index to ends[index].
Visit(text, index, end, value, results) ==
  IF Rejected(text, index, end, value) THEN results
  ELSE Push(results, MakeMatch(text, index, end, value))

\* An exception has left the loop of findAllExpressions.
Threw(results) == results # <<>> /\ results[Len(results)] = ThrownMatch

\* The while loop of findAllExpressions with regex.lastIndex = lastIndex;
\* index is the result of regex.exec.
RECURSIVE FindLoop(_, _, _, _), FindStep(_, _, _, _)
\* The loop with "break" in place of the three "continue" statements.
FindStepBreaks(text, ends, index, results) ==
  IF index = 0 THEN results
  ELSE IF Rejected(text, index, ends[index],
                   evaluateTokens(tokenize(SubSeq(text, index, ends[index] - 1))))
  THEN results
  ELSE FindLoop(text, ends, ends[index],
         Visit(text, index, ends[index],
               evaluateTokens(tokenize(SubSeq(text, index, ends[index] - 1))), results))
FindLoop(text, ends, lastIndex, results) ==
  IF Threw(results) THEN results
  ELSE FindStep(text, ends, RegexExec(ends, lastIndex), results)
FindStep(text, ends, index, results) ==
  IF index = 0 THEN results
  ELSE FindLoop(text, ends, ends[index],
         Visit(text, index, ends[index],
               evaluateTokens(tokenize(SubSeq(text, index, ends[index] - 1))), results))

findAllExpressions(text) == FindLoop(text, MatchEnds(text), 1, <<>>)

\* The value of a call that returns no Match.
NoMatch == [expression |-> <<>>, result |-> Null, startIndex |-> -1, endIndex |-> -1]

\* allMatches[0] ?? null
FirstOrNull(allMatches) ==
  IF Threw(allMatches) THEN ThrownMatch
  ELSE IF allMatches = <<>> THEN NoMatch ELSE allMatches[1]

detectMathExpression(text) == FirstOrNull(findAllExpressions(text))

\* SelectAtCursor with the closest expression before the cursor looked for
\* ahead of the expression that contains it.
SelectAtCursorBeforeFirst(allMatches, cursorPosition) ==
  LET containing == {k \in 1..Len(allMatches) :
                       cursorPosition >= allMatches[k].startIndex
                       /\ cursorPosition <= allMatches[k].endIndex}
      beforeMatches == SelectSeq(allMatches, LAMBDA m : m.endIndex <= cursorPosition)
  IN IF Threw(allMatches) THEN ThrownMatch
     ELSE IF Len(allMatches) = 0 THEN NoMatch
     ELSE IF Len(beforeMatches) > 0 THEN beforeMatches[Len(beforeMatches)]
     ELSE IF containing # {} THEN allMatches[Min(containing)]
     ELSE allMatches[1]

\* SelectAtCursor with the first of the expressions before the cursor
\* instead of the last.
SelectAtCursorFirstBefore(allMatches, cursorPosition) ==
  LET containing == {k \in 1..Len(allMatches) :
                       cursorPosition >= allMatches[k].startIndex
                       /\ cursorPosition <= allMatches[k].endIndex}
      beforeMatches == SelectSeq(allMatches, LAMBDA m : m.endIndex <= cursorPosition)
  IN IF Threw(allMatches) THEN ThrownMatch
     ELSE IF Len(allMatches) = 0 THEN NoMatch
     ELSE IF containing # {} THEN allMatches[Min(containing)]
     ELSE IF Len(beforeMatches) > 0 THEN beforeMatches[1]
     ELSE allMatches[1]

\* SelectAtCursor without the fallback to the first expression.
SelectAtCursorNoFallback(allMatches, cursorPosition) ==
  LET containing == {k \in 1..Len(allMatches) :
                       cursorPosition >= allMatches[k].startIndex
                       /\ cursorPosition <= allMatches[k].endIndex}
      beforeMatches == SelectSeq(allMatches, LAMBDA m : m.endIndex <= cursorPosition)
  IN IF Threw(allMatches) THEN ThrownMatch
     ELSE IF Len(allMatches) = 0 THEN NoMatch
     ELSE IF containing # {} THEN allMatches[Min(containing)]
     ELSE IF Len(beforeMatches) > 0 THEN beforeMatches[Len(beforeMatches)]
     ELSE NoMatch

\* The body of detectMathExpressionAtCursor after allMatches is computed.
SelectAtCursor(allMatches, cursorPosition) ==
  LET containing == {k \in 1..Len(allMatches) :
                       cursorPosition >= allMatches[k].startIndex
                       /\ cursorPosition <= allMatches[k].endIndex}
      beforeMatches == SelectSeq(allMatches, LAMBDA m : m.endIndex <= cursorPosition)
  IN IF Threw(allMatches) THEN ThrownMatch
     ELSE IF Len(allMatches) = 0 THEN NoMatch
     ELSE IF containing # {} THEN allMatches[Min(containing)]
     ELSE IF Len(beforeMatches) > 0 THEN beforeMatches[Len(beforeMatches)]
     ELSE allMatches[1]

detectMathExpressionAtCursor(text, cursorPosition) ==
  SelectAtCursor(findAllExpressions(text), cursorPosition)

\* ------------------------------------------------------------------------
\* The library as a state machine: a caller invokes one of the four
\* exported functions with an argument and receives its return value.
\* ------------------------------------------------------------------------
\* Bounds on the arguments the calls are made with: the length of the
\* texts scanned, of the texts scanned with a cursor, of the expressions
\* tokenized and of the token sequences evaluated, the operators of a
\* parenthesis-free token sequence and the digits of an operand.
MaxLen == 4
MaxCursorLen == 2
MaxExpr == 4
MaxTok == 4
MaxOps == 2
MaxDigits == 1

\* One character of every class the regex and the filters tell apart.
TextAlphabet == {"0", "1", ".", ",", "+", "-", "x", "/", "(", ")", " ", "a"}
\* One character of every class the tokenizer tells apart.
ExprAlphabet == {"0", "1", ".", ",", "+", "-", "x", "(", ")", " ", "a"}
\* Number tokens and string tokens, "a" standing for a string that is no
\* operator.
TokenAlphabet ==
  {Num(0, 1), Num(1, 1), Num(2, 1), NaN}
    \cup {Str(c) : c \in {"+", "-", "*", "/", "(", ")", "a"}}

SeqsUpTo(S, n) == UNION {[1..k -> S] : k \in 0..n}

\* The texts of the repository's tests and documentation, and texts that
\* reach the evaluator through parentheses.
SeedTexts ==
  {<<"1", "0", "0", "+", "5", "0">>,
   <<"1", "0", "+", "5", "*", "2">>,
   <<"1", "0", "*", "-", "2">>,
   <<"-", "5", "+", "1", "0">>,
   <<"3", ".", "1", "4", "*", "2">>,
   <<"1", "0", "/", "0">>,
   <<"T", "h", "e", " ", "t", "o", "t", "a", "l", " ", "i", "s", " ", "1", "0", "0", "+", "5", "0", " ", "d", "o", "l", "l", "a", "r", "s">>,
   <<"N", "o", " ", "m", "a", "t", "h", " ", "h", "e", "r", "e">>,
   <<"1", "2", ",", "7", "3", "8", "+", "1", "0", "0">>,
   <<"1", ",", "0", "0", "0", "*", "2", ",", "5", "0", "0">>,
   <<"h", "e", "l", "l", "o", " ", "1", "0", "+", "5", " ", "w", "o", "r", "l", "d">>,
   <<"1", "0", "+", "5", " ", "s", "o", "m", "e", " ", "t", "e", "x", "t", " ", "h", "e", "r", "e">>,
   <<"s", "o", "m", "e", " ", "t", "e", "x", "t", " ", "1", "0", "+", "5">>,
   <<"1", ".", "2", ".", "3">>,
   <<"3", "x", "4">>,
   <<"3", "u00D7", "4">>,
   <<"(", "1", "0", "+", "5", ")", "*", "2">>,
   <<"3", ".", "1", "4", " ", "u00D7", " ", "2">>,
   <<"1", "0", "0", "+", "5", "0", "*", "2">>,
   <<"+", "(", "1", "0", "0", "*", "2", ")">>,
   <<"1", ".", "2", ".", "3", "+", "4">>,
   <<"5", "-", "(", "3", "+", "2", ")">>,
   <<"2", "0", "/", "2", "/", "2">>,
   <<"(", ".", ")", "+", "1">>,
   <<"(", "1", " ", "2", ")", "+", "3">>,
   <<"-", "(", "1", "+", "1", ")", "+", "5">>,
   <<"1", "/", "(", "1", "-", "1", ")">>,
   <<"1", "/", "3", "+", "1">>,
   <<"2", "/", "3">>}

\* The threshold the tests of the oversized-input guard are written for.
MaxInputLength == 10000
\* '1+2' followed by n times 'a'
Padded(n) == [i \in 1..(3 + n) |-> IF i = 1 THEN "1" ELSE IF i = 2 THEN "+" ELSE IF i = 3 THEN "2" ELSE "a"]
\* The texts of the "ReDoS safety" tests: '1+2' + 'a'.repeat(10_000 - 3)
\* and a text one character longer.
LongTexts == {Padded(MaxInputLength - 3), Padded(MaxInputLength - 2)}

\* Unsigned decimal literals of at most MaxDigits digits.
DigitSeqs == SeqsUpTo({"0", "1", "3"}, MaxDigits) \ {<<>>}
Literals == DigitSeqs \cup {a \o <<".">> \o b : a \in DigitSeqs, b \in {<<"1">>, <<"5">>, <<"0", "3">>}}
BinaryGlyphs == {"+", "-", "*", "/", "x", MulSign}
\* The texts "a op b"
TwoOperandTexts == {a \o <<op>> \o b : a \in Literals, b \in Literals, op \in BinaryGlyphs}

\* Texts with several expressions: apart, touching ("2+(1)" and "3+4"),
\* with a rejected candidate between two accepted ones, and with a
\* candidate rejected by the first filter or by tokenize before an
\* accepted one.
MultiMatchTexts ==
  {<<"1", "+", "1", " ", "2", "+", "2">>,
   <<"1", "+", "1", " ", "2", "+", "2", " ", "a">>,
   <<"2", "+", "(", "1", ")", "3", "+", "4">>,
   <<"a", " ", "1", "+", "1", " ", "b", " ", "2", "x", "3", " ", "c">>,
   <<"1", "+", "1", " ", "1", "/", "0", " ", "2", "+", "2">>,
   <<"1", ".", "2", ".", "3", "+", "4", " ", "2", "+", "2">>,
   <<"1", "+", "(", "a", ")", " ", "2", "+", "2">>}
Texts ==
  SeqsUpTo(TextAlphabet, MaxLen) \cup SeedTexts \cup LongTexts \cup TwoOperandTexts
    \cup MultiMatchTexts
CursorTexts == SeqsUpTo(TextAlphabet, MaxCursorLen) \cup SeedTexts \cup MultiMatchTexts
\* Every cursor from before the text to after it; the tests' cursor 0 for
\* the long texts.
Cursors(t) == -1..(Len(t) + 1)
Exprs == SeqsUpTo(ExprAlphabet, MaxExpr) \cup SeedTexts

\* Parenthesis-free sequences n0 op1 n1 ... opk nk with k <= MaxOps.
Operands == {Num(0, 1), Num(1, 1), Num(2, 1), Num(3, 1)}
BinaryOps == {"+", "-", "*", "/"}
RECURSIVE FlatOfOps(_)
FlatOfOps(k) ==
  IF k = 0 THEN {<<n>> : n \in Operands}
  ELSE {f \o <<Str(op), n>> : f \in FlatOfOps(k - 1), op \in BinaryOps, n \in Operands}
FlatSeqs == UNION {FlatOfOps(k) : k \in 0..MaxOps}
\* One parenthesized group of at most one operator, after nothing, a sign
\* or an operand and an operator, and before nothing or an operator and an
\* operand.
SmallOperands == {Num(0, 1), Num(1, 1), Num(2, 1)}
SmallFlat ==
  {<<n>> : n \in SmallOperands}
    \cup {<<n, Str(op), m>> : n \in SmallOperands, m \in SmallOperands, op \in BinaryOps}
BeforeGroup ==
  {<<>>, <<Str("+")>>, <<Str("-")>>} \cup {<<n, Str(op)>> : n \in SmallOperands, op \in BinaryOps}
AfterGroup == {<<>>} \cup {<<Str(op), n>> : n \in SmallOperands, op \in BinaryOps}
GroupSeqs ==
  {b \o <<Str("(")>> \o f \o <<Str(")")>> \o a : b \in BeforeGroup, f \in SmallFlat, a \in AfterGroup}

TokenSeqs == SeqsUpTo(TokenAlphabet, MaxTok) \cup FlatSeqs \cup GroupSeqs

\* One scan with one exec on MATH_REGEX itself instead of a loop on a RegExp
\* of its own: the scan starts where the previous one stopped.
findAllExpressionsOnShared(t, lastIndex) ==
  LET ends == MatchEnds(t)
      index == RegexExec(ends, lastIndex)
  IN IF index = 0 THEN [results |-> <<>>, lastIndex |-> 1]
     ELSE [results |-> Visit(t, index, ends[index],
                             evaluateTokens(tokenize(SubSeq(t, index, ends[index] - 1))), <<>>),
           lastIndex |-> ends[index]]

\* A call of findAllExpressions in the module's state, lastIndex being
\* MATH_REGEX.lastIndex (a position here): the scan runs on a RegExp built
\* from MATH_REGEX.source and MATH_REGEX.flags, which starts at the first
\* character, and MATH_REGEX itself is left as it is.
findAllExpressionsCall(t, lastIndex) ==
  [results |-> findAllExpressions(t), lastIndex |-> lastIndex]

\* The texts and cursors of the sequences of detections.
SequenceTexts == MultiMatchTexts \cup {<<>>, <<"1", "+", "1">>, <<"a">>, <<"2", "+", "2">>}

\* No call of the sequence is remembered.
NoCall == [fn |-> "none", text |-> <<>>, cursor |-> 0, retMatch |-> NoMatch]

\* The hook's state: InlineCalcState, and a string or null.
NoExpression == [null |-> TRUE, chars |-> <<>>]
Expression(e) == [null |-> FALSE, chars |-> e]
Origin == [top |-> 0, left |-> 0]
initialState ==
  [expression |-> NoExpression, result |-> Null, show |-> FALSE, position |-> Origin]

\* calcReducer; an action is {type, expression, result, position}.
ClearAction == [type |-> "clear", expression |-> NoExpression, result |-> Null, position |-> Origin]
DismissAction == [type |-> "dismiss", expression |-> NoExpression, result |-> Null, position |-> Origin]
DetectAction(m, foundPosition) ==
  [type |-> "detect", expression |-> Expression(m.expression), result |-> m.result,
   position |-> foundPosition]
\* calcReducer with dismiss only lowering show.
calcReducerDismissLowersShow(st, action) ==
  IF action.type = "detect"
  THEN [expression |-> action.expression, result |-> action.result, show |-> TRUE,
        position |-> action.position]
  ELSE IF action.type = "dismiss" THEN [st EXCEPT !.show = FALSE]
  ELSE initialState

\* calcReducer
calcReducer(st, action) ==
  IF action.type = "detect"
  THEN [expression |-> action.expression, result |-> action.result, show |-> TRUE,
        position |-> action.position]
  ELSE initialState

\* null in expressionStartIndexRef, and an omitted cursorPosition.
NoIndex == -1
NoCursor == -2

\* text.includes(expr)
TextIncludes(t, expr) ==
  \E i \in 1..(Len(t) - Len(expr) + 1) : SubSeq(t, i, i + Len(expr) - 1) = expr

\* The hook between two calls, h: the state of the last render (state and
\* stateRef.current), the state the reducer has computed for the next
\* render (queued, empty when no dispatch is pending), the two refs, and
\* of the last call its return value and the callbacks it invoked.
\* dispatch(action): the reducer runs on the latest state.
Latest(h) == IF h.queued = <<>> THEN h.state ELSE h.queued[1]
dispatch(h, action) == [h EXCEPT !.queued = <<calcReducer(Latest(h), action)>>]

\* The start of a call on the hook's return object.
Entered(h) == [h EXCEPT !.ret = "void", !.fired = <<>>]

\* What a call invokes, in order: a callback of the options with the
\* expression and result of st and the indexes it is given, e.preventDefault
\* ("preventDefault") or replaceExpressionInEditor.
Fired(callback, st, startIndex, endIndex) ==
  [callback |-> callback, expression |-> st.expression, result |-> st.result,
   startIndex |-> startIndex, endIndex |-> endIndex]

\* dismiss()
dismiss(h) ==
  LET st == h.stateRef
  IN IF st.show
     THEN dispatch([h EXCEPT !.dismissedExpressionsRef = @ \cup {st.expression.chars},
                             !.fired = Append(@, Fired("onDismiss", st, NoIndex, NoIndex))],
                   DismissAction)
     ELSE dispatch(h, DismissAction)

\* clear() recording the expression on show as dismissed, as dismiss() does.
clearAsDismiss(h) == dismiss([h EXCEPT !.expressionStartIndexRef = NoIndex])

\* clear()
clear(h) == dispatch([h EXCEPT !.expressionStartIndexRef = NoIndex], ClearAction)

\* apply() with the replacement made whatever onBeforeApply did.
ReplaceAlways(h, st, startIdx) ==
  LET asked == IF h.options.onBeforeApply = "none" THEN h
               ELSE [h EXCEPT !.fired = Append(@, Fired("onBeforeApply", st, startIdx,
                                                         startIdx + Len(st.expression.chars)))]
      replaced == [asked EXCEPT !.fired = Append(@, Fired("replaceExpressionInEditor", st,
                                                           h.expressionStartIndexRef, NoIndex))]
  IN clear([replaced EXCEPT !.fired = Append(@, Fired("onApply", st, NoIndex, NoIndex))])

\* apply() after its two early returns, startIdx being startIndex ?? 0:
\* onBeforeApply, if there is one, gets the context and may call its
\* preventDefault; the replacement in the editor is made unless it did.
Replace(h, st, startIdx) ==
  LET asked == IF h.options.onBeforeApply = "none" THEN h
               ELSE [h EXCEPT !.fired = Append(@, Fired("onBeforeApply", st, startIdx,
                                                         startIdx + Len(st.expression.chars)))]
      replaced == IF h.options.onBeforeApply = "prevents" THEN asked
                  ELSE [asked EXCEPT !.fired = Append(@, Fired("replaceExpressionInEditor", st,
                                                                h.expressionStartIndexRef, NoIndex))]
  IN clear([replaced EXCEPT !.fired = Append(@, Fired("onApply", st, NoIndex, NoIndex))])

\* apply()
apply(h) ==
  IF ~h.stateRef.show \/ ~h.options.editor THEN h
  ELSE Replace(h, h.stateRef,
               IF h.expressionStartIndexRef = NoIndex THEN 0 ELSE h.expressionStartIndexRef)

\* handleKeyDown with no Escape branch.
handleKeyDownWithoutEscape(h, key) ==
  IF ~h.stateRef.show THEN [h EXCEPT !.ret = "false"]
  ELSE IF key = "Tab"
  THEN [apply([h EXCEPT !.fired = Append(@, Fired("preventDefault", initialState, NoIndex, NoIndex))])
          EXCEPT !.ret = "true"]
  ELSE IF key = " " THEN [dismiss(h) EXCEPT !.ret = "false"]
  ELSE [h EXCEPT !.ret = "false"]

\* handleKeyDown with Space handled as Escape is.
handleKeyDownSpaceHandled(h, key) ==
  IF ~h.stateRef.show THEN [h EXCEPT !.ret = "false"]
  ELSE IF key \in {"Escape", " "}
  THEN [dismiss([h EXCEPT !.fired = Append(@, Fired("preventDefault", initialState, NoIndex, NoIndex))])
          EXCEPT !.ret = "true"]
  ELSE IF key = "Tab"
  THEN [apply([h EXCEPT !.fired = Append(@, Fired("preventDefault", initialState, NoIndex, NoIndex))])
          EXCEPT !.ret = "true"]
  ELSE [h EXCEPT !.ret = "false"]

\* handleKeyDown(e), key being e.key
handleKeyDown(h, key) ==
  IF ~h.stateRef.show THEN [h EXCEPT !.ret = "false"]
  ELSE IF key = "Escape"
  THEN [dismiss([h EXCEPT !.fired = Append(@, Fired("preventDefault", initialState, NoIndex, NoIndex))])
          EXCEPT !.ret = "true"]
  ELSE IF key = "Tab"
  THEN [apply([h EXCEPT !.fired = Append(@, Fired("preventDefault", initialState, NoIndex, NoIndex))])
          EXCEPT !.ret = "true"]
  ELSE IF key = " " THEN [dismiss(h) EXCEPT !.ret = "false"]
  ELSE [h EXCEPT !.ret = "false"]

\* The dismissed expressions handleInput keeps, with only an expression
\* that is the whole text kept.
RetainedWholeText(dismissed, t) == {expr \in dismissed : expr = t}

\* The dismissed expressions handleInput keeps: those the text includes.
Retained(dismissed, t) == {expr \in dismissed : TextIncludes(t, expr)}

\* handleInput(text, textNodes, cursorPosition) after the dismissed
\* expressions were pruned, mathResult being the detection's result and
\* foundPosition the position computed from the text nodes or the editor.
Suggest(h, mathResult, foundPosition) ==
  IF mathResult = ThrownMatch THEN [h EXCEPT !.ret = "threw"]
  ELSE IF mathResult # NoMatch /\ mathResult.expression \in h.dismissedExpressionsRef
  THEN [clear(h) EXCEPT !.ret = "false"]
  ELSE IF mathResult # NoMatch
  THEN [dispatch([h EXCEPT !.expressionStartIndexRef = mathResult.startIndex],
                 DetectAction(mathResult, foundPosition))
          EXCEPT !.ret = "true"]
  ELSE [clear(h) EXCEPT !.ret = "false"]

MathResult(allMatches, cursorPosition) ==
  IF cursorPosition # NoCursor THEN SelectAtCursor(allMatches, cursorPosition)
  ELSE FirstOrNull(allMatches)

handleInput(h, t, cursorPosition, allMatches, foundPosition) ==
  Suggest([h EXCEPT !.dismissedExpressionsRef = Retained(@, t)],
          MathResult(allMatches, cursorPosition), foundPosition)

\* A render: the queued state becomes the hook's state and stateRef.current.
render(h) == [h EXCEPT !.state = h.queued[1], !.stateRef = h.queued[1], !.queued = <<>>]

\* The calls made on one hook, and the arguments of handleInput: a text, a
\* cursor position or none, and the position the environment computes for
\* the expression.
MaxCalls == 4
Placed == [top |-> 1, left |-> 2]
HookInput(t, c, foundPosition) == [text |-> t, cursor |-> c, foundPosition |-> foundPosition]
HookInputs ==
  { HookInput(<<"1", "+", "1">>, 3, Placed),
    HookInput(<<"2", "x", "3", " ", "1", "+", "1">>, NoCursor, Origin),
    HookInput(<<"a">>, NoCursor, Origin) }

\* The keys pressed, and the options a hook is mounted with: whether
\* getEditor() returns an element, and whether there is an onBeforeApply
\* and it calls preventDefault. onApply and onDismiss are always given.
MaxKeyCalls == 3
Keys == {"Tab", "Escape", " ", "a"}
HookOptions ==
  { [editor |-> FALSE, onBeforeApply |-> "none"], [editor |-> TRUE, onBeforeApply |-> "none"],
    [editor |-> TRUE, onBeforeApply |-> "allows"], [editor |-> TRUE, onBeforeApply |-> "prevents"] }

\* pc .. retMatch: the call of a library function in progress, allMatches
\* being what findAllExpressions returned to it.
\* mathRegexLastIndex: MATH_REGEX.lastIndex, as a position.
\* earlier: a call of the sequence, remembered with its result.
\* state, stateRef: the state of the last render and stateRef.current.
\* queued: the state the reducer has computed for the next render, if any.
\* expressionStartIndexRef, dismissedExpressionsRef: the two refs.
\* options: optionsRef.current.
\* calls: the calls made on the hook's return object, with their outcomes.
VARIABLES pc, fn, text, cursor, tokens, retTokens, retValue, retMatch, allMatches,
          mathRegexLastIndex, earlier,
          state, stateRef, queued, expressionStartIndexRef, dismissedExpressionsRef, options,
          calls
callVars == <<pc, fn, text, cursor, tokens, retTokens, retValue, retMatch, allMatches>>
hookVars ==
  <<state, stateRef, queued, expressionStartIndexRef, dismissedExpressionsRef, options, calls>>
vars == <<callVars, mathRegexLastIndex, earlier, hookVars>>

\* The module loaded and one hook mounted with the options o.
Mounted(o) ==
  /\ pc = "idle"
  /\ fn = "none"
  /\ text = <<>>
  /\ cursor = 0
  /\ tokens = <<>>
  /\ retTokens = <<>>
  /\ retValue = Null
  /\ retMatch = NoMatch
  /\ allMatches = <<>>
  /\ mathRegexLastIndex = 1
  /\ earlier = NoCall
  /\ state = initialState
  /\ stateRef = initialState
  /\ queued = <<>>
  /\ expressionStartIndexRef = NoIndex
  /\ dismissedExpressionsRef = {}
  /\ options = o
  /\ calls = <<>>

\* The options of the hook tests: getEditor: () => null.
Init == Mounted([editor |-> FALSE, onBeforeApply |-> "none"])

CallTokenize(expr) ==
  /\ pc = "idle"
  /\ pc' = "returned"
  /\ fn' = "tokenize"
  /\ text' = expr
  /\ retTokens' = tokenize(expr)
  /\ UNCHANGED <<cursor, tokens, retValue, retMatch, allMatches, mathRegexLastIndex, earlier,
                 hookVars>>

CallEvaluateTokens(ts) ==
  /\ pc = "idle"
  /\ pc' = "returned"
  /\ fn' = "evaluateTokens"
  /\ tokens' = ts
  /\ retValue' = evaluateTokens(ts)
  /\ UNCHANGED <<text, cursor, retTokens, retMatch, allMatches, mathRegexLastIndex, earlier,
                 hookVars>>

CallDetect(t) ==
  /\ pc = "idle"
  /\ pc' = "returned"
  /\ fn' = "detectMathExpression"
  /\ text' = t
  /\ \E scan \in {findAllExpressionsCall(t, mathRegexLastIndex)} :
       /\ allMatches' = scan.results
       /\ retMatch' = FirstOrNull(scan.results)
       /\ mathRegexLastIndex' = scan.lastIndex
  /\ UNCHANGED <<cursor, tokens, retTokens, retValue, earlier, hookVars>>

\* scan is findAllExpressionsCall(t, mathRegexLastIndex), the same for every
\* cursor position.
CallDetectAtCursor(t, c, scan) ==
  /\ pc = "idle"
  /\ pc' = "returned"
  /\ fn' = "detectMathExpressionAtCursor"
  /\ text' = t
  /\ cursor' = c
  /\ allMatches' = scan.results
  /\ retMatch' = SelectAtCursor(scan.results, c)
  /\ mathRegexLastIndex' = scan.lastIndex
  /\ UNCHANGED <<tokens, retTokens, retValue, earlier, hookVars>>

\* The caller has consumed the return value; nothing of the call remains.
Return ==
  /\ pc = "returned"
  /\ pc' = "idle"
  /\ fn' = "none"
  /\ text' = <<>>
  /\ cursor' = 0
  /\ tokens' = <<>>
  /\ retTokens' = <<>>
  /\ retValue' = Null
  /\ retMatch' = NoMatch
  /\ allMatches' = <<>>
  /\ UNCHANGED <<mathRegexLastIndex, earlier, hookVars>>

\* The four entry points, each with every argument of its bounded set.
Tokenize == pc = "idle" /\ \E expr \in Exprs : CallTokenize(expr)
Evaluate == pc = "idle" /\ \E ts \in TokenSeqs : CallEvaluateTokens(ts)
Detect == pc = "idle" /\ \E t \in Texts : CallDetect(t)
DetectAtCursor ==
  /\ pc = "idle"
  /\ \/ \E t \in CursorTexts : \E scan \in {findAllExpressionsCall(t, mathRegexLastIndex)} :
          \E c \in Cursors(t) : CallDetectAtCursor(t, c, scan)
     \/ \E t \in LongTexts : \E scan \in {findAllExpressionsCall(t, mathRegexLastIndex)} :
          CallDetectAtCursor(t, 0, scan)

Next == Tokenize \/ Evaluate \/ Detect \/ DetectAtCursor \/ Return

Spec == Init /\ [][Next]_vars

\* ------------------------------------------------------------------------
\* Sequences of detections: any number of calls of the two selectors, one
\* after the other, one earlier call of the sequence being kept with its
\* result for comparison with the later ones.
\* ------------------------------------------------------------------------
SequenceDetect == pc = "idle" /\ \E t \in SequenceTexts : CallDetect(t)
SequenceDetectAtCursor ==
  /\ pc = "idle"
  /\ \E t \in SequenceTexts : \E scan \in {findAllExpressionsCall(t, mathRegexLastIndex)} :
       \E c \in Cursors(t) : CallDetectAtCursor(t, c, scan)

\* The caller keeps the arguments and the result of the call that returned.
ReturnKept ==
  /\ pc = "returned"
  /\ earlier' = [fn |-> fn, text |-> text, cursor |-> cursor, retMatch |-> retMatch]
  /\ pc' = "idle"
  /\ fn' = "none"
  /\ text' = <<>>
  /\ cursor' = 0
  /\ retMatch' = NoMatch
  /\ allMatches' = <<>>
  /\ UNCHANGED <<tokens, retTokens, retValue, mathRegexLastIndex, hookVars>>

SequenceNext == SequenceDetect \/ SequenceDetectAtCursor \/ Return \/ ReturnKept

SequenceSpec == Init /\ [][SequenceNext]_vars

\* ------------------------------------------------------------------------
\* One mounted useInlineCalc: calls of handleInput, dismiss and clear on its
\* return object, and renders. A dispatch takes effect at the next render;
\* a render may or may not come between two calls.
\* ------------------------------------------------------------------------
Hook ==
  [state |-> state, stateRef |-> stateRef, queued |-> queued,
   expressionStartIndexRef |-> expressionStartIndexRef,
   dismissedExpressionsRef |-> dismissedExpressionsRef, options |-> options,
   ret |-> "void", fired |-> <<>>]

\* What is on show for the user and for the callbacks, and what is on show
\* with no dispatch pending.
Rendered(h) == IF h.stateRef.show THEN h.stateRef.expression ELSE NoExpression
Showing(h) == IF h.queued = <<>> THEN Rendered(h) ELSE NoExpression

\* The call op(text, cursor) found the hook as h, detected mathResult and
\* left the hook as h2.
Called(op, t, c, mathResult, h, h2) ==
  /\ Len(calls) < MaxCalls
  /\ \E after \in {h2} :
       /\ state' = after.state
       /\ stateRef' = after.stateRef
       /\ queued' = after.queued
       /\ expressionStartIndexRef' = after.expressionStartIndexRef
       /\ dismissedExpressionsRef' = after.dismissedExpressionsRef
       /\ calls' = Append(calls, [op |-> op, text |-> t, cursor |-> c,
                                  detected |-> IF mathResult \in {NoMatch, ThrownMatch}
                                               THEN NoExpression
                                               ELSE Expression(mathResult.expression),
                                  rendered |-> Rendered(h), showing |-> Showing(h),
                                  before |-> h.stateRef,
                                  ret |-> after.ret, fired |-> after.fired,
                                  left |-> Latest(after),
                                  startIndex |-> after.expressionStartIndexRef,
                                  dismissed |-> after.dismissedExpressionsRef])
  /\ UNCHANGED <<callVars, earlier, options>>

HandleInputWith(t, c, foundPosition, scan) ==
  /\ mathRegexLastIndex' = scan.lastIndex
  /\ Called("handleInput", t, c, MathResult(scan.results, c), Hook,
            handleInput(Entered(Hook), t, c, scan.results, foundPosition))

HandleInput ==
  \E in \in HookInputs :
    \E scan \in {findAllExpressionsCall(in.text, mathRegexLastIndex)} :
      HandleInputWith(in.text, in.cursor, in.foundPosition, scan)

Dismiss ==
  /\ Called("dismiss", <<>>, NoCursor, NoMatch, Hook, dismiss(Entered(Hook)))
  /\ UNCHANGED mathRegexLastIndex

Clear ==
  /\ Called("clear", <<>>, NoCursor, NoMatch, Hook, clear(Entered(Hook)))
  /\ UNCHANGED mathRegexLastIndex

Render ==
  /\ queued # <<>>
  /\ state' = render(Hook).state
  /\ stateRef' = render(Hook).stateRef
  /\ queued' = render(Hook).queued
  /\ UNCHANGED <<callVars, mathRegexLastIndex, earlier, expressionStartIndexRef,
                 dismissedExpressionsRef, options, calls>>

HookNext == HandleInput \/ Dismiss \/ Clear \/ Render

HookSpec == Init /\ [][HookNext]_vars

\* ------------------------------------------------------------------------
\* One useInlineCalc mounted with any of the options, with the keys and
\* apply() as well; the string of a handleKeyDown call is its key.
\* ------------------------------------------------------------------------
Apply ==
  /\ Called("apply", <<>>, NoCursor, NoMatch, Hook, apply(Entered(Hook)))
  /\ UNCHANGED mathRegexLastIndex

HandleKeyDown ==
  \E key \in Keys :
    /\ Called("handleKeyDown", <<key>>, NoCursor, NoMatch, Hook, handleKeyDown(Entered(Hook), key))
    /\ UNCHANGED mathRegexLastIndex

KeyInit == \E o \in HookOptions : Mounted(o)

KeyNext ==
  \/ Len(calls) < MaxKeyCalls /\ HandleInput
  \/ Len(calls) < MaxKeyCalls /\ HandleKeyDown
  \/ Len(calls) < MaxKeyCalls /\ Dismiss
  \/ Len(calls) < MaxKeyCalls /\ Clear
  \/ Len(calls) < MaxKeyCalls /\ Apply
  \/ Render

KeySpec == KeyInit /\ [][KeyNext]_vars

\* ------------------------------------------------------------------------
\* Properties of the Matches the two selectors return
\* ------------------------------------------------------------------------
\* A selector has returned a Match.
ReturnedMatch ==
  /\ pc = "returned"
  /\ fn \in {"detectMathExpression", "detectMathExpressionAtCursor"}
  /\ retMatch # NoMatch
  /\ retMatch # ThrownMatch

\* C1: every Match returned by detectMathExpression or by
\* detectMathExpressionAtCursor has a finite result; a candidate whose
\* value is NaN or infinite never surfaces as a Match.
FiniteResult == ReturnedMatch => IsFinite(retMatch.result)

\* C2: a text longer than 10,000 characters yields null from both
\* selectors, whatever it contains and wherever the cursor is.
OversizedYieldsNull ==
  (pc = "returned" /\ fn \in {"detectMathExpression", "detectMathExpressionAtCursor"}
     /\ Len(text) > MaxInputLength)
    => retMatch = NoMatch

\* C3: for every Match m returned for a text, 0 <= m.startIndex <
\* m.endIndex <= text.length, m.endIndex - m.startIndex is the length of
\* m.expression, and m.expression is text.slice(m.startIndex, m.endIndex).
MatchSpan ==
  ReturnedMatch =>
    /\ 0 <= retMatch.startIndex
    /\ retMatch.startIndex < retMatch.endIndex
    /\ retMatch.endIndex <= Len(text)
    /\ retMatch.endIndex - retMatch.startIndex = Len(retMatch.expression)
    /\ retMatch.expression = SubSeq(text, retMatch.startIndex + 1, retMatch.endIndex)

\* A Match strictly inside its text, selected as the closest one before the
\* cursor.
MatchSpanInside ==
  /\ ReturnedMatch
  /\ fn = "detectMathExpressionAtCursor"
  /\ retMatch.startIndex > 0
  /\ retMatch.endIndex < Len(text)
  /\ cursor > retMatch.endIndex

\* ------------------------------------------------------------------------
\* Properties of evaluateTokens
\* ------------------------------------------------------------------------
EvaluateReturned == pc = "returned" /\ fn = "evaluateTokens"

\* Standard arithmetic, with the value of a division by zero left
\* undefined.
Undefined == [k |-> "undef", n |-> 0, d |-> 1, s |-> ""]
RefApply(op, a, b) ==
  IF a = Undefined \/ b = Undefined THEN Undefined
  ELSE CASE op = "+" -> Num(a.n * b.d + b.n * a.d, a.d * b.d)
         [] op = "-" -> Num(a.n * b.d - b.n * a.d, a.d * b.d)
         [] op = "*" -> Num(a.n * b.n, a.d * b.d)
         [] op = "/" -> IF b.n = 0 THEN Undefined ELSE Num(a.n * b.d, a.d * b.n)

\* A recursive-descent reference evaluator.  A parse result is the value v
\* of the phrase read and the position p after it, or a failure.
\*   expr   ::= ["+" | "-"] term {("+" | "-") term}
\*   term   ::= factor {("*" | "/") factor}
\*   factor ::= Number | "(" expr ")"
\* A leading "-" negates the factor that follows it.
RefFail == [ok |-> FALSE, v |-> Undefined, p |-> 0]
RefJoin(op, l, r) ==
  IF r.ok THEN [ok |-> TRUE, v |-> RefApply(op, l.v, r.v), p |-> r.p] ELSE RefFail
RefNegate(r) ==
  IF r.ok THEN [r EXCEPT !.v = RefApply("-", Num(0, 1), r.v)] ELSE RefFail
RefIsOp(ts, p, ops) == p <= Len(ts) /\ IsString(ts[p]) /\ ts[p].s \in ops
RefClose(ts, r) ==
  IF r.ok /\ RefIsOp(ts, r.p, {")"}) THEN [r EXCEPT !.p = r.p + 1] ELSE RefFail

RECURSIVE RefExpr(_, _), RefSum(_, _), RefSigned(_, _), RefProduct(_, _), RefFactor(_, _)
RefFactor(ts, p) ==
  IF p > Len(ts) THEN RefFail
  ELSE IF IsFinite(ts[p]) THEN [ok |-> TRUE, v |-> ts[p], p |-> p + 1]
  ELSE IF IsStr(ts[p], "(") THEN RefClose(ts, RefExpr(ts, p + 1))
  ELSE RefFail
RefProduct(ts, l) ==
  IF ~l.ok THEN RefFail
  ELSE IF RefIsOp(ts, l.p, {"*", "/"})
  THEN RefProduct(ts, RefJoin(ts[l.p].s, l, RefFactor(ts, l.p + 1)))
  ELSE l
RefSigned(ts, p) ==
  IF RefIsOp(ts, p, {"-"}) THEN RefProduct(ts, RefNegate(RefFactor(ts, p + 1)))
  ELSE IF RefIsOp(ts, p, {"+"}) THEN RefProduct(ts, RefFactor(ts, p + 1))
  ELSE RefProduct(ts, RefFactor(ts, p))
RefSum(ts, l) ==
  IF ~l.ok THEN RefFail
  ELSE IF RefIsOp(ts, l.p, {"+", "-"})
  THEN RefSum(ts, RefJoin(ts[l.p].s, l, RefProduct(ts, RefFactor(ts, l.p + 1))))
  ELSE l
RefExpr(ts, p) == RefSum(ts, RefSigned(ts, p))

\* The whole sequence is one expr.
RefWhole(ts, r) == IF r.ok /\ r.p = Len(ts) + 1 THEN r ELSE RefFail
WellFormed(ts) == RefWhole(ts, RefExpr(ts, 1)).ok
Reference(ts) == RefWhole(ts, RefExpr(ts, 1)).v

\* C4: on every well-formed token sequence of numbers, + - * /, balanced
\* parentheses and a leading unary sign, evaluateTokens returns the value
\* of standard arithmetic, a unary minus negating only its own operand.
AgreesWithReference ==
  (EvaluateReturned /\ WellFormed(tokens) /\ Reference(tokens) # Undefined)
    => retValue = Reference(tokens)

\* n0 op1 n1 ... opk nk
IsFlat(ts) ==
  /\ Len(ts) % 2 = 1
  /\ \A i \in 1..Len(ts) :
       IF i % 2 = 1 THEN IsFinite(ts[i]) ELSE IsString(ts[i]) /\ ts[i].s \in {"+", "-", "*", "/"}
NoZeroDivisor(ts) == \A i \in 1..(Len(ts) - 1) : ~(IsStr(ts[i], "/") /\ IsZero(ts[i + 1]))

\* The value of a flat sequence from the operator at position p, by terms:
\* acc is the sum of the terms finished, sign the operator before the
\* current term and term the product so far of the current term.
RECURSIVE RefFlatFrom(_, _, _, _, _)
RefFlatFrom(ts, p, acc, sign, term) ==
  IF p > Len(ts) THEN RefApply(sign, acc, term)
  ELSE IF ts[p].s \in {"*", "/"}
  THEN RefFlatFrom(ts, p + 2, acc, sign, RefApply(ts[p].s, term, ts[p + 1]))
  ELSE RefFlatFrom(ts, p + 2, RefApply(sign, acc, term), ts[p].s, ts[p + 1])
RefFlat(ts) == RefFlatFrom(ts, 2, Num(0, 1), "+", ts[1])

\* C5: on every parenthesis-free sequence n0 op1 n1 ... opk nk without a
\* division by zero, evaluateTokens returns the value of collapsing the *
\* and / triplets left to right and then the + and - triplets left to
\* right.
TwoPassValue ==
  (EvaluateReturned /\ IsFlat(tokens) /\ NoZeroDivisor(tokens))
    => retValue = RefFlat(tokens)

\* 1+2*3: a sequence whose value depends on the order of the passes, 7 and
\* not the 9 of one pass from left to right.
TwoPassMixed ==
  /\ EvaluateReturned
  /\ tokens = <<Num(1, 1), Str("+"), Num(2, 1), Str("*"), Num(3, 1)>>
  /\ retValue = Num(7, 1)

\* C6: a sequence that leaves two adjacent Numbers with no operator
\* between them does not reduce to exactly one Number, so evaluateTokens
\* returns null.
AdjacentNumbers(ts) == \E i \in 1..(Len(ts) - 1) : IsNumber(ts[i]) /\ IsNumber(ts[i + 1])
SingleNumberContract == (EvaluateReturned /\ AdjacentNumbers(tokens)) => retValue = Null

\* A "/" whose right operand is zero: the Number 0, or a parenthesized
\* flat group whose value is 0.
ZeroGroup(ts, i, j) ==
  /\ IsStr(ts[i], "(")
  /\ IsStr(ts[j], ")")
  /\ IsFlat(SubSeq(ts, i + 1, j - 1))
  /\ IsZero(RefFlat(SubSeq(ts, i + 1, j - 1)))
DividesByZero(ts) ==
  \E i \in 1..(Len(ts) - 1) :
    /\ IsStr(ts[i], "/")
    /\ \/ IsZero(ts[i + 1])
       \/ \E j \in (i + 3)..Len(ts) : ZeroGroup(ts, i + 1, j)

\* C7: evaluateTokens returns null for every token sequence in which a "/"
\* has a right operand equal to zero, at top level, inside parentheses or
\* once a group has been reduced to zero; and no Match is returned for a
\* candidate that divides by zero.
DivisionByZeroIsNull ==
  /\ (EvaluateReturned /\ DividesByZero(tokens)) => retValue = Null
  /\ ReturnedMatch => ~DividesByZero(tokenize(retMatch.expression))

\* 1/(1-1): the zero is produced by the reduction of the group.
DivisionByReducedZero ==
  /\ EvaluateReturned
  /\ tokens = <<Num(1, 1), Str("/"), Str("("), Num(1, 1), Str("-"), Num(1, 1), Str(")")>>
  /\ retValue = Null

\* Structurally malformed sequences.  The parentheses are balanced when no
\* ")" comes before its "(" and every "(" is closed.
RECURSIVE ParenScan(_, _, _)
ParenScan(ts, p, depth) ==
  IF p > Len(ts) THEN depth = 0
  ELSE IF IsStr(ts[p], "(") THEN ParenScan(ts, p + 1, depth + 1)
  ELSE IF IsStr(ts[p], ")") THEN depth > 0 /\ ParenScan(ts, p + 1, depth - 1)
  ELSE ParenScan(ts, p + 1, depth)
Unbalanced(ts) == ~ParenScan(ts, 1, 0)
EmptyGroup(ts) == \E i \in 1..(Len(ts) - 1) : IsStr(ts[i], "(") /\ IsStr(ts[i + 1], ")")
IsOperatorToken(t) == IsString(t) /\ t.s \in {"+", "-", "*", "/"}
\* A "+" or "-" that leads the sequence or a group is a unary sign.
LeadingSign(ts, i) == ts[i].s \in {"+", "-"} /\ (i = 1 \/ IsStr(ts[i - 1], "("))
\* A binary operator needs a Number or a group on each side.
LacksOperand(ts, i) ==
  /\ IsOperatorToken(ts[i])
  /\ ~LeadingSign(ts, i)
  /\ \/ i = 1
     \/ i = Len(ts)
     \/ ~(IsNumber(ts[i - 1]) \/ IsStr(ts[i - 1], ")"))
     \/ ~(IsNumber(ts[i + 1]) \/ IsStr(ts[i + 1], "("))
Malformed(ts) ==
  \/ ts = <<>>
  \/ Len(ts) = 1 /\ ~IsNumber(ts[1])
  \/ Unbalanced(ts)
  \/ EmptyGroup(ts)
  \/ \E i \in 1..Len(ts) : LacksOperand(ts, i)

\* C8: evaluateTokens returns null for every structurally malformed token
\* sequence: unbalanced parentheses, an empty group, a binary operator
\* without an operand on both sides (a leading unary sign apart), the
\* empty sequence and a single token that is not a number.
MalformedIsNull == (EvaluateReturned /\ Malformed(tokens)) => retValue = Null

\* 1 + : a binary operator without a right operand, after a Number that
\* would otherwise be the value.
MalformedTrailingOperator ==
  /\ EvaluateReturned
  /\ tokens = <<Num(1, 1), Str("+")>>
  /\ Malformed(tokens)
  /\ retValue = Null

\* ------------------------------------------------------------------------
\* Two-operand texts
\* ------------------------------------------------------------------------
\* An unsigned decimal literal: digits, optionally "." and digits.
IsDigits(s) == s # <<>> /\ \A i \in 1..Len(s) : s[i] \in Digits
DotOf(s) == IF \E i \in 1..Len(s) : s[i] = "." THEN CHOOSE i \in 1..Len(s) : s[i] = "." ELSE 0
IsLiteral(s) ==
  IF DotOf(s) = 0 THEN IsDigits(s)
  ELSE IsDigits(SubSeq(s, 1, DotOf(s) - 1)) /\ IsDigits(SubSeq(s, DotOf(s) + 1, Len(s)))

\* The value of a literal: its digits read as a natural number, over the
\* power of ten of the number of digits after the ".".
RECURSIVE RefNatural(_)
RefNatural(ds) ==
  IF ds = <<>> THEN 0 ELSE RefNatural(SubSeq(ds, 1, Len(ds) - 1)) * 10 + DigitVal(ds[Len(ds)])
RefLiteral(s) ==
  IF DotOf(s) = 0 THEN Num(RefNatural(s), 1)
  ELSE Num(RefNatural(SubSeq(s, 1, DotOf(s) - 1) \o SubSeq(s, DotOf(s) + 1, Len(s))),
           Pow10(Len(s) - DotOf(s)))

\* The text a op b: the position of its operator, its operands, its value.
GlyphPositions(t) == {i \in 1..Len(t) : t[i] \in {"+", "-", "*", "/", "x", MulSign}}
GlyphOf(t) == CHOOSE i \in GlyphPositions(t) : TRUE
LeftOf(t) == SubSeq(t, 1, GlyphOf(t) - 1)
RightOf(t) == SubSeq(t, GlyphOf(t) + 1, Len(t))
RefOperator(g) == IF g \in {"x", MulSign} THEN "*" ELSE g
IsTwoOperand(t) ==
  /\ Cardinality(GlyphPositions(t)) = 1
  /\ IsLiteral(LeftOf(t))
  /\ IsLiteral(RightOf(t))
  /\ ~(t[GlyphOf(t)] = "/" /\ IsZero(RefLiteral(RightOf(t))))
TwoOperandValue(t) == RefApply(RefOperator(t[GlyphOf(t)]), RefLiteral(LeftOf(t)), RefLiteral(RightOf(t)))

\* v to the nearest multiple of 10^-6: the six decimals of the fraction in
\* two steps of three, rounded on the remainder.
RefRoundMagnitude(n, d) ==
  LET q1 == ((n % d) * 1000) \div d
      r1 == ((n % d) * 1000) % d
      q2 == (r1 * 1000) \div d
      r2 == (r1 * 1000) % d
  IN Num((n \div d) * 1000000 + q1 * 1000 + q2 + (IF 2 * r2 >= d THEN 1 ELSE 0), 1000000)
RefRound6(v) ==
  IF v.n < 0 THEN RefApply("-", Num(0, 1), RefRoundMagnitude(-v.n, v.d))
  ELSE RefRoundMagnitude(v.n, v.d)

TwoOperandReturned == pc = "returned" /\ fn = "detectMathExpression" /\ IsTwoOperand(text)

\* C9: for every text that is a two-operand expression a op b of unsigned
\* decimal literals (b non-zero under /), detectMathExpression returns the
\* Match of the whole text, from 0 to its length, whose result is the value
\* of a op b rounded to six decimal places.
TwoOperandRounded ==
  TwoOperandReturned =>
    retMatch = [expression |-> text, result |-> RefRound6(TwoOperandValue(text)),
                startIndex |-> 0, endIndex |-> Len(text)]

\* C9 as stated: the result is the value of a op b itself.
TwoOperandExact ==
  TwoOperandReturned =>
    retMatch = [expression |-> text, result |-> TwoOperandValue(text),
                startIndex |-> 0, endIndex |-> Len(text)]

\* 0.5/3 = 0.1666..., returned as 0.166667.
TwoOperandRoundedUp ==
  /\ TwoOperandReturned
  /\ text = <<"0", ".", "5", "/", "3">>
  /\ retMatch.result = Num(166667, 1000000)

\* ------------------------------------------------------------------------
\* Exceptions
\* ------------------------------------------------------------------------
IsToken(t) == IsNumber(t) \/ (IsString(t) /\ t.s \in {"+", "-", "*", "/", "(", ")"})

\* C10: none of tokenize, evaluateTokens, detectMathExpression and
\* detectMathExpressionAtCursor throws; a call returns its tokens (none on
\* failure), a number or null, a Match or null.
NeverThrows ==
  pc = "returned" =>
    /\ retValue # Thrown
    /\ retMatch # ThrownMatch
    /\ fn = "tokenize" => \A i \in 1..Len(retTokens) : IsToken(retTokens[i])
    /\ fn = "evaluateTokens" => retValue = Null \/ IsNumber(retValue)
    /\ fn \in {"detectMathExpression", "detectMathExpressionAtCursor"} =>
         retMatch = NoMatch \/ IsNumber(retMatch.result)

\* A string that is no key of OPS between two numbers: the call returns.
UnknownOperatorReturns ==
  /\ EvaluateReturned
  /\ tokens = <<Num(1, 1), Str("a"), Num(1, 1)>>
  /\ retValue # Thrown

\* ------------------------------------------------------------------------
\* Selection at the cursor
\* ------------------------------------------------------------------------
\* detectMathExpressionAtCursor has returned; allMatches is what
\* findAllExpressions(text) gave it.
AtCursorReturned == pc = "returned" /\ fn = "detectMathExpressionAtCursor"

\* The Matches of `all` that contain the cursor c, both ends included, and
\* those that end at or before it.
ContainsCursor(m, c) == m.startIndex <= c /\ c <= m.endIndex
Containing(all, c) == {k \in 1..Len(all) : ContainsCursor(all[k], c)}
Preceding(all, c) == {k \in 1..Len(all) : all[k].endIndex <= c}

\* m is the first Match of `all` that contains c.
IsFirstContaining(all, c, m) ==
  \E k \in Containing(all, c) : all[k] = m /\ \A j \in Containing(all, c) : k <= j

\* C11: whenever at least one Match of the text contains the cursor (both
\* ends included), detectMathExpressionAtCursor returns the first such
\* Match in document order.
ContainingFirst ==
  (AtCursorReturned /\ Containing(allMatches, cursor) # {})
    => IsFirstContaining(allMatches, cursor, retMatch)

\* The cursor at the start of the second expression of "1+1 2+2": the
\* second is returned although the first ends before the cursor.
ContainingOverPreceding ==
  /\ AtCursorReturned
  /\ text = <<"1", "+", "1", " ", "2", "+", "2">>
  /\ cursor = 4
  /\ retMatch.startIndex = 4
  /\ Preceding(allMatches, cursor) # {}

\* m is the Match of `all` with the greatest endIndex among those that end
\* at or before c.
IsClosestPreceding(all, c, m) ==
  \E k \in Preceding(all, c) :
    all[k] = m /\ \A j \in Preceding(all, c) : all[j].endIndex <= all[k].endIndex

\* C12: when no Match contains the cursor and at least one Match ends at
\* or before it, detectMathExpressionAtCursor returns the one among those
\* with the greatest endIndex.
ClosestPreceding ==
  (AtCursorReturned /\ Containing(allMatches, cursor) = {}
     /\ Preceding(allMatches, cursor) # {})
    => IsClosestPreceding(allMatches, cursor, retMatch)

\* Two expressions before the cursor: the second is returned.
SecondOfTwoPreceding ==
  /\ AtCursorReturned
  /\ text = <<"1", "+", "1", " ", "2", "+", "2", " ", "a">>
  /\ cursor = 9
  /\ Cardinality(Preceding(allMatches, cursor)) = 2
  /\ retMatch.startIndex = 4

\* C13: when the text has Matches and none contains or precedes the
\* cursor, the first Match is returned; and detectMathExpressionAtCursor
\* returns null exactly when detectMathExpression returns null for the
\* text, whatever the cursor.
FallbackFirst ==
  AtCursorReturned =>
    /\ (allMatches # <<>>
          /\ Containing(allMatches, cursor) = {}
          /\ Preceding(allMatches, cursor) = {})
         => retMatch = allMatches[1]
    /\ retMatch = NoMatch <=> detectMathExpression(text) = NoMatch

\* A negative cursor, before both expressions of the text.
FallbackBeforeAll ==
  /\ AtCursorReturned
  /\ text = <<"a", " ", "1", "+", "1", " ", "b", " ", "2", "x", "3", " ", "c">>
  /\ cursor = -1
  /\ retMatch.startIndex = 2

\* ------------------------------------------------------------------------
\* Properties of tokenize
\* ------------------------------------------------------------------------
TokenizeReturned == pc = "returned" /\ fn = "tokenize"

\* Some numeric literal of s has two ".": two "." with nothing but digits,
\* "." and "," between them.
HasSecondDot(s) ==
  \E i \in 1..Len(s) : \E j \in (i + 1)..Len(s) :
    /\ s[i] = "."
    /\ s[j] = "."
    /\ \A k \in i..j : s[k] \in Digits \cup {".", ","}

\* C14: tokenize returns the empty sequence whenever a numeric literal of
\* its input contains a second ".", whatever tokens came before it.
SecondDotFails == (TokenizeReturned /\ HasSecondDot(text)) => retTokens = <<>>

\* 1+.. : the literal with the second "." comes after two valid tokens.
SecondDotAfterTokens ==
  /\ TokenizeReturned
  /\ text = <<"1", "+", ".", ".">>
  /\ retTokens = <<>>

\* The number of elements of the sequence s that are in the set S.
CountIn(s, S) == Cardinality({i \in 1..Len(s) : s[i] \in S})

\* C15: every string token tokenize returns is one of + - * / ( ); x and
\* the multiplication sign never appear, and each of them is emitted as
\* "*" (unless the call fails on a second ".").
OperatorsNormalized ==
  TokenizeReturned =>
    /\ \A i \in 1..Len(retTokens) :
         IsString(retTokens[i]) => retTokens[i].s \in {"+", "-", "*", "/", "(", ")"}
    /\ ~HasSecondDot(text) =>
         CountIn(retTokens, {Str("*")}) = CountIn(text, {"*", "x", MulSign})

\* 3x4 tokenizes to 3, *, 4.
GlyphNormalized ==
  /\ TokenizeReturned
  /\ text = <<"3", "x", "4">>
  /\ retTokens = <<Num(3, 1), Str("*"), Num(4, 1)>>

\* s without its commas.
WithoutCommas(s) == SelectSeq(s, LAMBDA c : c # ",")
\* Digits and commas after a first digit.
IsCommaNumeral(s) ==
  /\ s # <<>>
  /\ s[1] \in Digits
  /\ \A i \in 1..Len(s) : s[i] \in Digits \cup {","}

\* C16: a "," met while a literal is accumulated is dropped and does not
\* end the literal: digits separated by commas give one Number, the value
\* of the digits without the commas; 12,738+100 tokenizes to 12738, +, 100
\* and is detected with result 12838.
CommasStripped ==
  /\ (TokenizeReturned /\ IsCommaNumeral(text))
       => retTokens = <<Num(RefNatural(WithoutCommas(text)), 1)>>
  /\ (TokenizeReturned /\ text = <<"1", "2", ",", "7", "3", "8", "+", "1", "0", "0">>)
       => retTokens = <<Num(12738, 1), Str("+"), Num(100, 1)>>
  /\ (pc = "returned" /\ fn = "detectMathExpression"
        /\ text = <<"1", "2", ",", "7", "3", "8", "+", "1", "0", "0">>)
       => retMatch.result = Num(12838, 1)

\* 1,01 is the one Number 101.
CommaInsideLiteral ==
  /\ TokenizeReturned
  /\ text = <<"1", ",", "0", "1">>
  /\ retTokens = <<Num(101, 1)>>

\* The kind of each token, in order: "n" for a Number, the string itself
\* for a string token.
Kinds(ts) == [i \in 1..Len(ts) |-> IF IsNumber(ts[i]) THEN "n" ELSE ts[i].s]

\* The end of the run of digits, "." and "," from position i.
RECURSIVE RefLiteralEnd(_, _)
RefLiteralEnd(s, i) ==
  IF i <= Len(s) /\ s[i] \in Digits \cup {".", ","} THEN RefLiteralEnd(s, i + 1) ELSE i

\* A "-" at position i, after the tokens of kinds acc, is a unary sign: no
\* token yet, or the last one an operator or "(", and no "(" right after.
\* lastIsSign says whether this holds of a "-" that ends the input.
RefUnary(s, i, acc, lastIsSign) ==
  /\ acc = <<>> \/ acc[Len(acc)] \in {"+", "-", "*", "/", "("}
  /\ IF i = Len(s) THEN lastIsSign ELSE s[i + 1] # "("

\* The kinds of the tokens of s from position i by the rule of the unary
\* sign: a unary "-" and the literal after it are one Number, any other
\* "-" is the operator.
RECURSIVE RefKinds(_, _, _, _)
RefKinds(s, i, acc, lastIsSign) ==
  IF i > Len(s) THEN acc
  ELSE IF s[i] \in {"(", ")", "+", "/", "*"} THEN RefKinds(s, i + 1, Append(acc, s[i]), lastIsSign)
  ELSE IF s[i] \in {"x", MulSign} THEN RefKinds(s, i + 1, Append(acc, "*"), lastIsSign)
  ELSE IF s[i] \in Digits \cup {"."}
  THEN RefKinds(s, RefLiteralEnd(s, i), Append(acc, "n"), lastIsSign)
  ELSE IF s[i] = "-"
  THEN IF RefUnary(s, i, acc, lastIsSign)
       THEN RefKinds(s, RefLiteralEnd(s, i + 1), Append(acc, "n"), lastIsSign)
       ELSE RefKinds(s, i + 1, Append(acc, "-"), lastIsSign)
  ELSE RefKinds(s, i + 1, acc, lastIsSign)

\* C17: a "-" is the unary sign of the literal that follows exactly when
\* it is the first token scanned or the last token emitted is an operator
\* or "(", the character after it is not "(", and it is not the last
\* character of the input; any other "-" is emitted as the operator "-".
UnaryMinusRule ==
  (TokenizeReturned /\ ~HasSecondDot(text))
    => Kinds(retTokens) = RefKinds(text, 1, <<>>, FALSE)

\* C17 as stated, without the condition on the last character: a "-" that
\* ends the input after an operator would be a unary sign.
UnaryMinusRuleAsStated ==
  (TokenizeReturned /\ ~HasSecondDot(text))
    => Kinds(retTokens) = RefKinds(text, 1, <<>>, TRUE)

\* 1x-1: the "-" after an operator is the sign of the literal after it.
UnaryAfterOperator ==
  /\ TokenizeReturned
  /\ text = <<"1", "x", "-", "1">>
  /\ retTokens = <<Num(1, 1), Str("*"), Num(-1, 1)>>

\* ------------------------------------------------------------------------
\* Detections in sequence
\* ------------------------------------------------------------------------
\* A selector has returned after an earlier call with the same arguments.
SameArguments ==
  /\ pc = "returned"
  /\ fn \in {"detectMathExpression", "detectMathExpressionAtCursor"}
  /\ earlier.fn = fn
  /\ earlier.text = text
  /\ earlier.cursor = cursor

\* C18: in any sequence of calls of detectMathExpression and
\* detectMathExpressionAtCursor, a call returns what an earlier call with
\* the same text and cursor returned, whatever calls were made before or
\* between them, and the scan position of MATH_REGEX is where it was at
\* the start.
Pure ==
  /\ SameArguments => retMatch = earlier.retMatch
  /\ mathRegexLastIndex = 1

\* The same two-expression text is scanned again after an earlier scan of
\* it returned its first expression.
RepeatedScan ==
  /\ SameArguments
  /\ fn = "detectMathExpression"
  /\ text = <<"1", "+", "1", " ", "2", "+", "2">>
  /\ retMatch.startIndex = 0
  /\ retMatch.result = Num(2, 1)

\* ------------------------------------------------------------------------
\* Dismissal and clearing in useInlineCalc
\* ------------------------------------------------------------------------
\* Call i found expression E on show.
CalledWhileRendered(i, op, E) ==
  /\ calls[i].op = op
  /\ ~E.null
  /\ calls[i].rendered = E

\* Call j is a handleInput that detected E.
Detects(j, E) == calls[j].op = "handleInput" /\ calls[j].detected = E

\* Every handleInput text of the calls i+1 .. j contained E.
ContainedSince(i, j, E) ==
  \A k \in (i + 1)..j : calls[k].op = "handleInput" => TextIncludes(calls[k].text, E.chars)

\* Call j returned false and left the suggestion hidden.
LeftHidden(j) ==
  /\ calls[j].ret = "false"
  /\ ~calls[j].left.show
  /\ calls[j].left.expression.null

\* C19: after dismiss() is called while E is showing, a later handleInput
\* that detects E returns false and leaves show = false and expression =
\* null as long as every handleInput text since the dismissal contained E;
\* E is suggested again only after a handleInput whose text does not
\* contain E.
DismissedStaysHidden ==
  \A i \in 1..Len(calls) : \A j \in (i + 1)..Len(calls) :
    (/\ CalledWhileRendered(i, "dismiss", calls[i].rendered)
     /\ Detects(j, calls[i].rendered))
      => /\ ContainedSince(i, j, calls[i].rendered) => LeftHidden(j)
         /\ calls[j].ret = "true" => ~ContainedSince(i, j, calls[i].rendered)

\* 1+1 is dismissed while on show, a text that contains it but yields 2x3
\* is handled, and then the text 1+1 again: the fourth call returns false.
DismissedAfterOtherText ==
  /\ Len(calls) = 4
  /\ CalledWhileRendered(2, "dismiss", Expression(<<"1", "+", "1">>))
  /\ Detects(3, Expression(<<"2", "x", "3">>))
  /\ calls[3].ret = "true"
  /\ Detects(4, Expression(<<"1", "+", "1">>))
  /\ ContainedSince(2, 4, Expression(<<"1", "+", "1">>))
  /\ LeftHidden(4)

\* Call i found expression E on show with no dispatch pending.
CalledWhileShowing(i, op, E) ==
  /\ calls[i].op = op
  /\ ~E.null
  /\ calls[i].showing = E

\* Call j is the first handleInput after call i that detected E, and no
\* dismiss() was called in between while E was still on show.
NextDetects(i, j, E) ==
  /\ Detects(j, E)
  /\ \A k \in (i + 1)..(j - 1) : ~Detects(k, E) /\ ~CalledWhileRendered(k, "dismiss", E)

\* Call j returned true and left E on show with its result.
LeftShowing(j, E) ==
  /\ calls[j].ret = "true"
  /\ calls[j].left.show
  /\ calls[j].left.expression = E
  /\ calls[j].left.result = detectMathExpression(E.chars).result

\* C20: clear() hides the suggestion and records no dismissal: after
\* clear() is called while E is showing, the next handleInput that detects
\* E returns true and sets show = true with expression E and its result
\* (dismiss() not being called in between with E still on show).
ClearedIsSuggestedAgain ==
  \A i \in 1..Len(calls) : \A j \in (i + 1)..Len(calls) :
    (/\ CalledWhileShowing(i, "clear", calls[i].showing)
     /\ NextDetects(i, j, calls[i].showing))
      => /\ ~calls[i].left.show
         /\ LeftShowing(j, calls[i].showing)

\* 1+1 is on show, clear() is called and rendered, and the text 1+1 is
\* handled again: the suggestion is back with result 2.
ClearedThenSuggested ==
  /\ Len(calls) = 3
  /\ CalledWhileShowing(2, "clear", Expression(<<"1", "+", "1">>))
  /\ ~stateRef.show
  /\ NextDetects(2, 3, Expression(<<"1", "+", "1">>))
  /\ calls[3].ret = "true"
  /\ calls[3].left.result = Num(2, 1)

\* ------------------------------------------------------------------------
\* C21 .. C23, C27, C29: the keys and apply(), under KeySpec
\* ------------------------------------------------------------------------

\* Call i is handleKeyDown with the key.
KeyPressed(i, key) == calls[i].op = "handleKeyDown" /\ calls[i].text = <<key>>

\* Call i invoked the callback with the expression and result that were
\* on show when it was made.
Invoked(i, callback) ==
  \E n \in 1..Len(calls[i].fired) :
    /\ calls[i].fired[n].callback = callback
    /\ calls[i].fired[n].expression = calls[i].before.expression
    /\ calls[i].fired[n].result = calls[i].before.result

\* C21: while a suggestion is showing, handleKeyDown with Tab returns true,
\* invokes onApply(result, expression) and leaves show = false, whether or
\* not an editor element is available; while none is showing it returns
\* false and invokes nothing.
TabApplies ==
  \A i \in 1..Len(calls) :
    KeyPressed(i, "Tab") =>
      IF calls[i].before.show
      THEN calls[i].ret = "true" /\ Invoked(i, "onApply") /\ ~calls[i].left.show
      ELSE calls[i].ret = "false" /\ calls[i].fired = <<>>

\* Call i called e.preventDefault().
DefaultPrevented(i) ==
  \E n \in 1..Len(calls[i].fired) : calls[i].fired[n].callback = "preventDefault"

\* Call i left the expression that was on show dismissed and hidden.
LeftDismissed(i) ==
  /\ calls[i].before.expression.chars \in calls[i].dismissed
  /\ ~calls[i].left.show

SpaceDismisses ==
  \A i \in 1..Len(calls) :
    (KeyPressed(i, " ") /\ calls[i].before.show)
      => /\ LeftDismissed(i)
         /\ calls[i].ret = "false"
         /\ ~DefaultPrevented(i)

\* 2x3 is on show and Space is pressed.
SpacePressedOnSuggestion ==
  /\ Len(calls) = 2
  /\ KeyPressed(2, " ")
  /\ calls[2].before.show
  /\ calls[2].before.expression = Expression(<<"2", "x", "3">>)
  /\ calls[2].fired # <<>>
  /\ dismissedExpressionsRef = {<<"2", "x", "3">>}

\* Call i ran apply() past its early returns: apply() or the Tab key,
\* with a suggestion on show and an editor element.
ApplyRan(i) ==
  /\ calls[i].op = "apply" \/ KeyPressed(i, "Tab")
  /\ calls[i].before.show
  /\ options.editor

\* C27: when apply runs with an onBeforeApply handler that calls
\* preventDefault, no replacement is made in the editor, but
\* onApply(result, expression) is still invoked and the suggestion is
\* cleared (show = false, the stored start index reset); the context handed
\* to onBeforeApply has endIndex - startIndex equal to the length of the
\* expression.
PreventedApplyStillClears ==
  \A i \in 1..Len(calls) :
    ApplyRan(i) =>
      /\ options.onBeforeApply = "prevents"
           => /\ \A n \in 1..Len(calls[i].fired) :
                   calls[i].fired[n].callback # "replaceExpressionInEditor"
              /\ Invoked(i, "onApply")
              /\ ~calls[i].left.show
              /\ calls[i].startIndex = NoIndex
      /\ \A n \in 1..Len(calls[i].fired) :
           calls[i].fired[n].callback = "onBeforeApply"
             => calls[i].fired[n].endIndex - calls[i].fired[n].startIndex
                  = Len(calls[i].before.expression.chars)

\* 2x3 is on show at index 0 and apply() is called with an onBeforeApply
\* that prevents the replacement: it was handed the span 0 .. 3.
ApplyPrevented ==
  /\ Len(calls) = 2
  /\ calls[2].op = "apply"
  /\ ApplyRan(2)
  /\ options.onBeforeApply = "prevents"
  /\ calls[2].before.expression = Expression(<<"2", "x", "3">>)
  /\ calls[2].fired[1].callback = "onBeforeApply"
  /\ calls[2].fired[1].startIndex = 0
  /\ calls[2].fired[1].endIndex = 3
  /\ Len(calls[2].fired) = 2
  /\ expressionStartIndexRef = NoIndex

\* st is one of the two shapes of InlineCalcState.
IsInlineCalcState(st) ==
  /\ st.show <=> ~st.expression.null
  /\ st.show <=> st.result # Null

\* C29: in every state the hook reaches by handleInput, handleKeyDown,
\* dismiss, clear and apply, show is true exactly when expression is
\* non-null and exactly when result is non-null; dismiss and clear return
\* the state to the initial hidden state with position {0, 0}.
StateIsDiscriminated ==
  /\ IsInlineCalcState(state)
  /\ IsInlineCalcState(stateRef)
  /\ \A n \in 1..Len(queued) : IsInlineCalcState(queued[n])
  /\ \A i \in 1..Len(calls) :
       calls[i].op \in {"dismiss", "clear"}
         => calls[i].left = initialState /\ calls[i].left.position = [left |-> 0, top |-> 0]

\* A suggestion was on show, dismiss() was called and rendered, and
\* another suggestion is on show.
ShownHiddenShown ==
  /\ Len(calls) = 3
  /\ calls[2].op = "dismiss"
  /\ calls[2].before.show
  /\ calls[3].before = initialState
  /\ state.show
  /\ state.result = Num(6, 1)

\* ------------------------------------------------------------------------
\* C30: handleInput without a cursor after a dismissal, under HookSpec
\* ------------------------------------------------------------------------

\* The dismissed expressions call j found.
DismissedBefore(j) == IF j = 1 THEN {} ELSE calls[j - 1].dismissed

\* The text of call j holds a valid expression that is not dismissed.
HoldsUndismissed(j) ==
  \E n \in 1..Len(findAllExpressions(calls[j].text)) :
    findAllExpressions(calls[j].text)[n].expression \notin DismissedBefore(j)

\* C30: every handleInput without a cursor position whose text holds at
\* least one valid expression that is not in the dismissed set returns true
\* and shows a suggestion, even when the text also holds an earlier
\* expression that is dismissed.
UndismissedIsSuggested ==
  \A j \in 1..Len(calls) :
    (/\ calls[j].op = "handleInput"
     /\ calls[j].cursor = NoCursor
     /\ HoldsUndismissed(j))
      => calls[j].ret = "true" /\ calls[j].left.show

\* ------------------------------------------------------------------------
\* C25, C26: the scan of findAllExpressions
\* ------------------------------------------------------------------------

\* A call of detectMathExpression or detectMathExpressionAtCursor on a text
\* of ordinary length has returned.
Scanned ==
  /\ pc = "returned"
  /\ fn \in {"detectMathExpression", "detectMathExpressionAtCursor"}
  /\ text \notin LongTexts
  /\ ~Threw(allMatches)

\* The starts of the candidates regex.exec yields from lastIndex on,
\* whatever becomes of them.
RECURSIVE Candidates(_, _)
Candidates(ends, lastIndex) ==
  IF RegexExec(ends, lastIndex) = 0 THEN <<>>
  ELSE <<RegexExec(ends, lastIndex)>> \o Candidates(ends, ends[RegexExec(ends, lastIndex)])

\* The candidate from index to end passes the filters, tokenize and
\* evaluateTokens.
Accepted(t, index, end) ==
  /\ ~PrecededByNumeral(t, index)
  /\ ~FollowedByDot(t, end)
  /\ evaluateTokens(tokenize(SubSeq(t, index, end - 1))) # Null

\* Every accepted candidate of the text is among the Matches.
AcceptedAreReturned(t, ends) ==
  \A k \in 1..Len(Candidates(ends, 1)) :
    LET index == Candidates(ends, 1)[k]
    IN Accepted(t, index, ends[index])
         => \E n \in 1..Len(allMatches) :
              /\ allMatches[n].startIndex = index - 1
              /\ allMatches[n].endIndex = ends[index] - 1

\* C25: the Matches of findAllExpressions are in strictly increasing
\* startIndex order and do not overlap (each endIndex is at most the next
\* startIndex); detectMathExpression returns the Match with the smallest
\* startIndex among the accepted candidates; a rejected candidate (by the
\* filters, tokenization or evaluation) does not stop the scan (a text
\* shorter than two candidates, each an operand, an operator and an operand
\* at least, has no later candidate).
MatchesInOrder ==
  Scanned
    => /\ \A n \in 1..(Len(allMatches) - 1) :
            /\ allMatches[n].startIndex < allMatches[n + 1].startIndex
            /\ allMatches[n].endIndex <= allMatches[n + 1].startIndex
       /\ fn = "detectMathExpression"
            => IF allMatches = <<>> THEN retMatch = NoMatch
               ELSE /\ \E n \in 1..Len(allMatches) : retMatch = allMatches[n]
                    /\ \A n \in 1..Len(allMatches) :
                         retMatch.startIndex <= allMatches[n].startIndex
       /\ Len(text) >= 2 * Len(<<"1", "+", "1">>)
            => AcceptedAreReturned(text, MatchEnds(text))

\* detectMathExpression("1+(a) 2+2"): the candidate 1+(a) fails in
\* tokenize and the scan goes on to 2+2.
ScanPassesRejected ==
  /\ Scanned
  /\ fn = "detectMathExpression"
  /\ text = <<"1", "+", "(", "a", ")", " ", "2", "+", "2">>
  /\ Candidates(MatchEnds(text), 1) = <<1, 7>>
  /\ retMatch.startIndex = 6
  /\ retMatch.endIndex = 9

\* C26: no returned Match is immediately preceded in the text by a digit or
\* ".", and none is immediately followed by "."; "1.2.3+4" yields no Match
\* for any of its fragments.
MatchesStandAlone ==
  Scanned
    => /\ \A n \in 1..Len(allMatches) :
            /\ allMatches[n].startIndex > 0
                 => ~IsDigitOrDot(text[allMatches[n].startIndex])
            /\ allMatches[n].endIndex < Len(text)
                 => text[allMatches[n].endIndex + 1] # "."
       /\ text = <<"1", ".", "2", ".", "3", "+", "4">>
            => allMatches = <<>> /\ retMatch = NoMatch

\* detectMathExpression("1.2.3+4"): the one candidate, 2.3+4, follows a
\* "." and nothing is returned.
MalformedNumberSkipped ==
  /\ Scanned
  /\ fn = "detectMathExpression"
  /\ text = <<"1", ".", "2", ".", "3", "+", "4">>
  /\ Candidates(MatchEnds(text), 1) = <<3>>
  /\ retMatch = NoMatch

\* ------------------------------------------------------------------------
\* C28: the Number tokens of tokenize
\* ------------------------------------------------------------------------

\* C28: every Number token tokenize emits, for every input string, is a
\* real number parsed from a literal with at least one digit: tokenize
\* never emits NaN.
NumbersAreReal ==
  TokenizeReturned => \A n \in 1..Len(retTokens) : ~IsNaN(retTokens[n])

\* ------------------------------------------------------------------------
\* C24: the leading-sign rule of evaluateTokens
\* ------------------------------------------------------------------------

\* -rest, with null and an exception passed on.
Negated(rest) == IF rest \in {Null, Thrown} THEN rest ELSE Neg(rest)

\* C24: when the sequence has at least two tokens, the first is "-" and the
\* second is a Number or "(", evaluateTokens returns the negation of
\* evaluateTokens of the remainder (null when that is null); when the first
\* token is "+", it is dropped and the result is the evaluation of the
\* remainder.
LeadingSignRule ==
  (EvaluateReturned /\ Len(tokens) >= 2)
    => /\ (IsStr(tokens[1], "-") /\ (IsNumber(tokens[2]) \/ IsStr(tokens[2], "(")))
            => retValue = Negated(evaluateTokens(Tail(tokens)))
       /\ IsStr(tokens[1], "+") => retValue = evaluateTokens(Tail(tokens))

====
